---- MODULE Spec2Model ----
(***************************************************************************)
(* Kernel construction of tik (src/tik/tik/Kernel.cpp): the constructor    *)
(* Kernel::Kernel with its phases, over a small typed SSA input module.    *)
(*                                                                         *)
(* Every IR object (block, instruction, argument, global, function) is a   *)
(* handle <<owner, kind, n, i>>.  owner 0 is the input module; owner k > 0  *)
(* is the k-th Kernel object of the run (its KernelFunction, helpers and   *)
(* globals in TikModule).  The variable IR maps every block that exists,   *)
(* attached to a module or not, to its instructions, as LLVM's use lists   *)
(* do.                                                                     *)
(***************************************************************************)
EXTENDS Integers, Sequences, FiniteSets, TLC

VARIABLES
    IR,             \* block handle -> [insts : Seq(instruction)]
    order,          \* address order of the heap: iteration order of std::set<T *>
    requests,       \* the kernel requests not yet constructed: Seq(<<name, ids>>)
    reservedNames,  \* set<string> reservedNames
    KernelUID,      \* static int KernelUID
    TikModule,      \* entities attached to the output module
    KernelMap,      \* BlockID -> index of the owning Kernel
    KfMap,          \* KernelFunction -> index of its Kernel
    kernels,        \* the Kernel objects constructed so far, by index
    K,              \* the Kernel object under construction (this)
    pc,             \* position inside Kernel::Kernel
    log,            \* the phases the current construction has entered, in order
    tikBefore       \* TikModule as it was when the current construction began

vars == <<IR, order, requests, reservedNames, KernelUID, TikModule, KernelMap,
          KfMap, kernels, K, pc, log, tikBefore>>

\* ---------------------------------------------------------------- bounds

MaxKernels == 2
NumBlocks == 4

\* ---------------------------------------------------------------- helpers

Range(s) == {s[i] : i \in DOMAIN s}

RECURSIVE SeqToSetless(_, _)
\* the elements of s that are not in X, in order
SeqToSetless(s, X) ==
    IF s = <<>> THEN <<>>
    ELSE IF Head(s) \in X THEN SeqToSetless(Tail(s), X)
         ELSE <<Head(s)>> \o SeqToSetless(Tail(s), X)

IndexOf(s, x) == CHOOSE i \in DOMAIN s : s[i] = x /\ \A j \in 1..(i - 1) : s[j] # x

Lookup(f, x, dflt) == IF x \in DOMAIN f THEN f[x] ELSE dflt

Put(f, x, y) == [z \in DOMAIN f \cup {x} |-> IF z = x THEN y ELSE f[z]]

Drop(f, x) == [z \in DOMAIN f \ {x} |-> f[z]]

EmptyMap == [z \in {} |-> 0]

\* ---------------------------------------------------------------- handles

NULL == <<0, "null", 0, 0>>
BB(n) == <<0, "bb", n, 0>>
Inst(n) == <<0, "inst", n, 0>>
GV(n) == <<0, "gv", n, 0>>
Fn(f) == <<0, "fn", f, 0>>
Const(c) == <<0, "const", c, 0>>

Owner(h) == h[1]
Kind(h) == h[2]

BlockKinds == {"bb", "Init", "Exit", "Exception", "inter", "bridge", "entrance", "return"}
IsBlock(h) == Kind(h) \in BlockKinds
IsInstruction(h) == Kind(h) \in {"inst", "synth"}
IsArgument(h) == Kind(h) = "arg"
IsGlobalVariable(h) == Kind(h) \in {"gv", "gvcopy", "promoted"}
IsFunction(h) == Kind(h) = "fn"
IsConstant(h) == Kind(h) \in {"const", "null"}

\* functions of the input module: main(a, p), the helper f(x) with a body, and
\* the declaration ext() without one
MainFn == <<0, "fn", 1, 0>>
HelperFn == <<0, "fn", 2, 0>>
ExternFn == <<0, "fn", 3, 0>>
Arg(f, i) == <<0, "arg", f[3], i>>

\* handles of the objects Kernel k creates in TikModule
KernelFunctionOf(k) == <<k, "fn", 0, 0>>
MemoryReadOf(k) == <<k, "fn", 1, 0>>
MemoryWriteOf(k) == <<k, "fn", 2, 0>>
KArg(k, i) == <<k, "arg", 0, i>>
InitOf(k) == <<k, "Init", 0, 0>>
ExitOf(k) == <<k, "Exit", 0, 0>>
ExceptionOf(k) == <<k, "Exception", 0, 0>>
CloneOf(k, h) == <<k, h[2], h[3], h[4]>>
Synth(k, n, i) == <<k, "synth", n, i>>

\* ---------------------------------------------------------------- IR

\* an instruction: v its own handle, args its operands (for a phi the incoming
\* values), blks the successors of a terminator or the incoming blocks of a phi
I(v, op, callee, args, blks) ==
    [v |-> v, op |-> op, callee |-> callee, args |-> args, blks |-> blks, md |-> {}]

Terminators == {"br", "ret", "invoke", "switch"}

Block(parent, id, insts) == [parent |-> parent, id |-> id, insts |-> insts]

BlocksOf(ir, f) == {b \in DOMAIN ir : ir[b].parent = f}

HasTerminator(ir, b) ==
    ir[b].insts # <<>> /\ ir[b].insts[Len(ir[b].insts)].op \in Terminators

\* block->getTerminator(): the last instruction when it is a terminator
Terminator(ir, b) == ir[b].insts[Len(ir[b].insts)]

\* successors(block), in operand order
SuccSeq(ir, b) == IF HasTerminator(ir, b) THEN Terminator(ir, b).blks ELSE <<>>
Successors(ir, b) == Range(SuccSeq(ir, b))

\* predecessors(block): every block, of any function, whose terminator uses it
Predecessors(ir, b) == {p \in DOMAIN ir : b \in Successors(ir, p)}

\* f->users(): the instructions, anywhere, that call f or take it as an operand
Users(ir, f) ==
    {<<b, i>> \in UNION {{b} \X DOMAIN ir[b].insts : b \in DOMAIN ir} :
        ir[b].insts[i].callee = f \/ f \in Range(ir[b].insts[i].args)}

\* the block that holds the instruction v
ParentOf(ir, v) ==
    IF \E b \in DOMAIN ir : \E i \in DOMAIN ir[b].insts : ir[b].insts[i].v = v
    THEN CHOOSE b \in DOMAIN ir : \E i \in DOMAIN ir[b].insts : ir[b].insts[i].v = v
    ELSE NULL

\* f->empty(): a declaration has no blocks
FunctionEmpty(ir, f) == BlocksOf(ir, f) = {}

\* the entry block of a function of the input module
EntryBlock(f) == IF f = MainFn THEN BB(1) ELSE BB(NumBlocks + 1)

\* ---------------------------------------------------------------- input modules

\* what the blocks of main hold besides their phi, their op and their terminator
Decorations ==
    {"plain", "uses", "call1", "call2", "ext", "mem", "memptr", "gv", "gvfn", "invoke",
     "invokeptr", "rec", "indirect"}

MainBlocks == 1..NumBlocks
HelperBlock == NumBlocks + 1
\* one more block of main, for the modules with a wider main
ExtraBlock == NumBlocks + 2

\* a terminator's successors in main: none (a return), one, or two distinct
\* blocks; the entry block has no predecessor
SuccChoices ==
    {<<>>} \cup {<<x>> : x \in 2..NumBlocks}
           \cup {<<x, y>> : <<x, y>> \in {z \in (2..NumBlocks) \X (2..NumBlocks) : z[1] < z[2]}}

\* the successors of a switch in main: a default and two cases, three distinct
\* blocks
SwitchChoices ==
    {<<x, y, z>> : <<x, y, z>> \in
        {w \in (2..NumBlocks) \X (2..NumBlocks) \X (2..NumBlocks) :
            w[1] < w[2] /\ w[2] < w[3]}}

PredsIn(succ, b) == {p \in DOMAIN succ : b \in Range(succ[p])}

RECURSIVE SetToSeqAsc(_)
SetToSeqAsc(S) ==
    IF S = {} THEN <<>>
    ELSE LET m == CHOOSE x \in S : \A y \in S : x <= y
         IN <<m>> \o SetToSeqAsc(S \ {m})

PhiOf(succ, b) ==
    LET ps == SetToSeqAsc(PredsIn(succ, b))
    IN IF ps = <<>> THEN <<>>
       ELSE <<I(Inst(10 * b), "phi", NULL, [i \in DOMAIN ps |-> Const(ps[i])],
                [i \in DOMAIN ps |-> BB(ps[i])])>>

Op(n, args) == I(Inst(n), "op", NULL, args, <<>>)

MidOf(deco, b) ==
    LET plain == <<Op(10 * b + 1, <<Const(b)>>)>>
    IN CASE deco = "uses" ->
              <<Op(10 * b + 1, <<Arg(MainFn, 0),
                                 IF b \in {2, 3} THEN Inst(10 * (b - 1) + 1) ELSE Const(0)>>)>>
         [] deco \in {"call1", "call2"} /\ b = 2 ->
              <<I(Inst(22), "call", HelperFn, <<Arg(MainFn, 0)>>, <<>>), Op(21, <<Inst(22)>>)>>
         [] deco = "call2" /\ b = 3 ->
              <<I(Inst(32), "call", HelperFn, <<Const(7)>>, <<>>), Op(31, <<Inst(32)>>)>>
         [] deco = "ext" /\ b = 2 ->
              <<I(Inst(22), "call", ExternFn, <<Arg(MainFn, 0)>>, <<>>), Op(21, <<Const(2)>>)>>
         [] deco = "mem" /\ b = 2 ->
              <<Op(21, <<Const(2)>>),
                I(Inst(22), "load", NULL, <<Arg(MainFn, 1)>>, <<>>),
                Op(23, <<Const(3)>>),
                I(Inst(24), "store", NULL, <<Inst(22), Inst(23)>>, <<>>)>>
         [] deco = "memptr" /\ b = 2 ->
              <<Op(21, <<Const(2)>>),
                I(Inst(22), "load", NULL, <<Arg(MainFn, 1)>>, <<>>),
                I(Inst(23), "load", NULL, <<Inst(22)>>, <<>>),
                I(Inst(24), "store", NULL, <<Inst(23), Inst(22)>>, <<>>),
                I(Inst(25), "store", NULL, <<Inst(21), Arg(MainFn, 1)>>, <<>>)>>
         [] deco \in {"gv", "gvfn"} /\ b = 2 ->
              <<Op(21, <<GV(1)>>)>>
              \o (IF deco = "gvfn" THEN <<Op(22, <<HelperFn>>)>> ELSE <<>>)
         [] deco = "invokeptr" /\ b = 3 ->
              <<Op(31, <<Const(3)>>), I(Inst(32), "load", NULL, <<Inst(29)>>, <<>>)>>
         [] deco = "rec" /\ b = 2 ->
              <<I(Inst(22), "call", MainFn, <<Const(0), Const(0)>>, <<>>), Op(21, <<Const(2)>>)>>
         [] deco = "indirect" /\ b = 2 ->
              <<I(Inst(22), "call", NULL, <<Const(0)>>, <<>>), Op(21, <<Const(2)>>)>>
         [] OTHER -> plain

TermOf(deco, succ, b) ==
    LET ss == [i \in DOMAIN succ[b] |-> BB(succ[b][i])]
    IN IF Len(ss) = 0 THEN I(Inst(10 * b + 9), "ret", NULL, <<>>, <<>>)
       ELSE IF deco \in {"invoke", "invokeptr"} /\ b = 2 /\ Len(ss) = 2
            THEN I(Inst(29), "invoke", ExternFn, <<>>, ss)
       ELSE IF Len(ss) > 2
            THEN I(Inst(10 * b + 9), "switch", NULL,
                   <<Inst(10 * b + 1)>> \o [i \in 1..(Len(ss) - 1) |-> Const(i - 1)], ss)
       ELSE I(Inst(10 * b + 9), "br", NULL,
              IF Len(ss) = 2 THEN <<Inst(10 * b + 1)>> ELSE <<>>, ss)

\* an invoke ends block 2 only when the block has two successors; without it
\* the module is the plain one
Decorated(succ, deco) ==
    IF deco \in {"invoke", "invokeptr"} /\ Len(succ[2]) # 2 THEN "plain" ELSE deco

\* the input module with the given control flow of main and the given content
Program(succ, deco) ==
    [h \in {BB(b) : b \in DOMAIN succ} \cup {BB(HelperBlock)} |->
        IF h = BB(HelperBlock)
        THEN Block(HelperFn, HelperBlock,
                   <<Op(10 * HelperBlock + 1, <<Arg(HelperFn, 0)>>),
                     I(Inst(10 * HelperBlock + 9), "ret", NULL,
                       <<Inst(10 * HelperBlock + 1)>>, <<>>)>>)
        ELSE Block(MainFn, h[3],
                   PhiOf(succ, h[3]) \o MidOf(Decorated(succ, deco), h[3])
                   \o <<TermOf(Decorated(succ, deco), succ, h[3])>>)]

\* ---------------------------------------------------------------- iteration order

\* std::set<BasicBlock *> iterates in address order, which the allocator decides:
\* ord = 1 is ascending block number, ord = -1 descending
Orders == {1, -1}

RECURSIVE SetToSeq(_, _)
SetToSeq(S, ord) ==
    IF S = {} THEN <<>>
    ELSE LET m == CHOOSE x \in S : \A y \in S : ord * x[3] <= ord * y[3]
         IN <<m>> \o SetToSeq(S \ {m}, ord)

\* ---------------------------------------------------------------- Block Splitter

IsCallBase(inst) == inst.op \in {"call", "invoke"}

\* the call instructions SplitBlocks splits after: not a terminator, with a
\* called function that has a body
SplitsAfter(ir, inst) ==
    /\ IsCallBase(inst)
    /\ inst.op \notin Terminators
    /\ inst.callee # NULL
    /\ ~FunctionEmpty(ir, inst.callee)

SplitPoints(ir, b) == {i \in DOMAIN ir[b].insts : SplitsAfter(ir, ir[b].insts[i])}

\* the blocks that splits after the instruction inst have created so far
SplitsOf(ir, inst) ==
    {h \in DOMAIN ir : h[1] = 0 /\ h[3] > 100 /\ h[3] % 100 = inst.v[3]}

\* BasicBlock::Create inside splitBasicBlock: a block that is not in the module
SplitBlockOf(ir, inst) ==
    <<0, "bb", 100 * (Cardinality(SplitsOf(ir, inst)) + 1) + inst.v[3], 0>>

\* next->splitBasicBlock(ci->getNextNode()): the instructions after ci move to
\* a new block, next ends in a branch to it, and the phis of the old
\* successors name the new block
SplitBasicBlock(ir, next, i) ==
    LET insts == ir[next].insts
        spl == SplitBlockOf(ir, insts[i])
        br == I(<<0, "inst", 10 * spl[3], 0>>, "br", NULL, <<>>, <<spl>>)
        moved == SubSeq(insts, i + 1, Len(insts))
        oldSuccs == Successors(ir, next)
        Retarget(inst) ==
            IF inst.op = "phi"
            THEN [inst EXCEPT !.blks = [j \in DOMAIN inst.blks |->
                                         IF inst.blks[j] = next THEN spl ELSE inst.blks[j]]]
            ELSE inst
    IN [h \in DOMAIN ir \cup {spl} |->
          IF h = next
          THEN [ir[next] EXCEPT !.insts =
                   [j \in 1..i |-> IF next \in oldSuccs THEN Retarget(insts[j]) ELSE insts[j]]
                   \o <<br>>]
          ELSE IF h = spl THEN Block(ir[next].parent, ir[next].id, moved)
          ELSE IF h \in oldSuccs
               THEN [ir[h] EXCEPT !.insts = [j \in DOMAIN ir[h].insts |-> Retarget(ir[h].insts[j])]]
          ELSE ir[h]]

RECURSIVE SplitWork(_, _, _)
\* the while loop of SplitBlocks over the stack toProcess
SplitWork(ir, blocks, toProcess) ==
    IF toProcess = <<>> THEN [ir |-> ir, blocks |-> blocks]
    ELSE LET next == toProcess[Len(toProcess)]
             rest == SubSeq(toProcess, 1, Len(toProcess) - 1)
             pts == SplitPoints(ir, next)
         IN IF pts = {} THEN SplitWork(ir, blocks, rest)
            ELSE LET i == CHOOSE x \in pts : \A y \in pts : x <= y
                     spl == SplitBlockOf(ir, ir[next].insts[i])
                 IN SplitWork(SplitBasicBlock(ir, next, i), blocks \cup {spl},
                              rest \o <<spl>>)

\* a SplitBlocks that splits no block
SplitNothing(ir, blocks, ord) == [ir |-> ir, blocks |-> blocks]

SplitBlocks(ir, blocks, ord) == SplitWork(ir, blocks, SetToSeq(blocks, ord))

\* ---------------------------------------------------------------- Region Analyzer

\* the blocks of S that GetEntrances inserts into Entrances
GetEntrances(ir, blocks, kmap) ==
    {block \in blocks :
        /\ ir[block].id \notin DOMAIN kmap
        /\ \/ \E pred \in Predecessors(ir, block) : pred \notin blocks
           \/ /\ block = EntryBlock(ir[block].parent)
              /\ \E u \in Users(ir, ir[block].parent) : u[1] \notin blocks}

RECURSIVE ExitsOfSuccs(_, _, _, _)
\* the inner loop of GetExits over the successors of one block
ExitsOfSuccs(acc, blocks, block, succs) ==
    IF succs = <<>> THEN acc
    ELSE LET suc == Head(succs)
         IN IF suc \notin blocks /\ suc \notin acc.coveredExits
            THEN ExitsOfSuccs([ExitTarget |-> Put(acc.ExitTarget, acc.exitId, suc),
                               coveredExits |-> acc.coveredExits \cup {suc},
                               ExitMap |-> Put(acc.ExitMap, block, acc.exitId),
                               exitId |-> acc.exitId + 1],
                              blocks, block, Tail(succs))
            ELSE ExitsOfSuccs(acc, blocks, block, Tail(succs))

\* the blocks, outside S, of the users of the function a returning block is in
ReturnTargets(ir, blocks, block, ord) ==
    IF HasTerminator(ir, block) /\ Terminator(ir, block).op = "ret"
    THEN SetToSeq({u[1] : u \in Users(ir, ir[block].parent)}, ord)
    ELSE <<>>

RECURSIVE ExitsOfBlocks(_, _, _, _, _)
ExitsOfBlocks(acc, ir, blocks, todo, ord) ==
    IF todo = <<>> THEN acc
    ELSE LET block == Head(todo)
             a1 == ExitsOfSuccs(acc, blocks, block, SuccSeq(ir, block))
             a2 == ExitsOfSuccs(a1, blocks, block, ReturnTargets(ir, blocks, block, ord))
         IN ExitsOfBlocks(a2, ir, blocks, Tail(todo), ord)

\* GetExits, up to its throw: ExitTarget, ExitMap and the exit-id counter
GetExits(ir, blocks, ord) ==
    ExitsOfBlocks([ExitTarget |-> EmptyMap, coveredExits |-> {}, ExitMap |-> EmptyMap,
                   exitId |-> 0],
                  ir, blocks, SetToSeq(blocks, ord), ord)

RECURSIVE Closure(_, _, _, _)
\* the blocks a breadth-first walk pops: from the blocks of todo, along the
\* successors that lie in cross and were not seen before
Closure(ir, seen, todo, cross) ==
    IF todo = {} THEN seen
    ELSE LET nxt == {s \in UNION {Successors(ir, p) : p \in todo} :
                        s \in cross /\ s \notin seen /\ s \notin todo}
         IN Closure(ir, seen \cup todo, nxt, cross)

\* the blocks the walk of one successor suc of cond processes: suc itself, then
\* every successor that is in blocks and not yet checked (cond is checked)
Processed(ir, blocks, cond, suc) ==
    Closure(ir, {}, {suc}, blocks \ {cond})

Recurses(ir, blocks, cond, suc) ==
    \E p \in Processed(ir, blocks, cond, suc) : cond \in Successors(ir, p)

Exits(ir, blocks, cond, suc) ==
    \E p \in Processed(ir, blocks, cond, suc) :
        \/ Len(SuccSeq(ir, p)) = 0
        \/ \E s \in Successors(ir, p) : s \notin blocks

\* recursePaths and exitPaths of cond: a successor with both flags gives neither
RecursePaths(ir, blocks, cond) ==
    {suc \in Successors(ir, cond) :
        Recurses(ir, blocks, cond, suc) /\ ~Exits(ir, blocks, cond, suc)}

ExitPaths(ir, blocks, cond) ==
    {suc \in Successors(ir, cond) :
        Exits(ir, blocks, cond, suc) /\ ~Recurses(ir, blocks, cond, suc)}

Conditions(ir, blocks) == {b \in blocks : Len(SuccSeq(ir, b)) > 1}

ValidConditions(ir, blocks) ==
    {cond \in Conditions(ir, blocks) :
        RecursePaths(ir, blocks, cond) # {} /\ ExitPaths(ir, blocks, cond) # {}}

\* the blocks the body walk of the valid condition b pops
BodyWalk(ir, blocks, b) ==
    Closure(ir, {}, RecursePaths(ir, blocks, b), DOMAIN ir \ ValidConditions(ir, blocks))

\* GetConditional: Conditional, Body and Termination over the blocks of S
GetConditional(ir, blocks) ==
    LET valid == ValidConditions(ir, blocks)
        body == UNION {BodyWalk(ir, blocks, b) : b \in valid} \cap blocks
    IN [Conditional |-> valid, Body |-> body, Termination |-> blocks \ body]

\* ---------------------------------------------------------------- Value Classifier

AddUnique(seq, x) == IF x \in Range(seq) THEN seq ELSE Append(seq, x)

RECURSIVE AddAllUnique(_, _)
AddAllUnique(seq, xs) ==
    IF xs = <<>> THEN seq ELSE AddAllUnique(AddUnique(seq, Head(xs)), Tail(xs))

\* what one operand op of the instruction inst adds to ExternalValues
ExternalOfOperand(ev, ir, blocks, inst, op, kfmap, ks) ==
    IF IsInstruction(op)
    THEN IF ParentOf(ir, op) \notin blocks THEN AddUnique(ev, op) ELSE ev
    ELSE IF IsArgument(op)
         THEN IF inst.op = "call"
              THEN IF inst.callee \in DOMAIN kfmap
                   THEN AddAllUnique(ev, ks[kfmap[inst.callee]].ExternalValues)
                   ELSE ev
              ELSE AddUnique(ev, op)
         ELSE ev

RECURSIVE ExternalOfOperands(_, _, _, _, _, _, _)
ExternalOfOperands(ev, ir, blocks, inst, ops, kfmap, ks) ==
    IF ops = <<>> THEN ev
    ELSE ExternalOfOperands(ExternalOfOperand(ev, ir, blocks, inst, Head(ops), kfmap, ks),
                            ir, blocks, inst, Tail(ops), kfmap, ks)

RECURSIVE ExternalOfInsts(_, _, _, _, _, _)
ExternalOfInsts(ev, ir, blocks, insts, kfmap, ks) ==
    IF insts = <<>> THEN ev
    ELSE ExternalOfInsts(ExternalOfOperands(ev, ir, blocks, Head(insts), Head(insts).args,
                                            kfmap, ks),
                         ir, blocks, Tail(insts), kfmap, ks)

RECURSIVE ExternalOfBlocks(_, _, _, _, _, _)
ExternalOfBlocks(ev, ir, blocks, todo, kfmap, ks) ==
    IF todo = <<>> THEN ev
    ELSE ExternalOfBlocks(ExternalOfInsts(ev, ir, blocks, ir[Head(todo)].insts, kfmap, ks),
                          ir, blocks, Tail(todo), kfmap, ks)

\* GetExternalValues: the vector ExternalValues, in the order of discovery
GetExternalValues(ir, blocks, ord, kfmap, ks) ==
    ExternalOfBlocks(<<>>, ir, blocks, SetToSeq(blocks, ord), kfmap, ks)

\* the type of a value of the input module: main's second argument and the
\* results of instructions 23 and 29 are pointers
TypeOf(v) ==
    IF v = Arg(MainFn, 1) \/ v \in {Inst(23), Inst(29)} THEN "ptr" ELSE "i32"

\* ---------------------------------------------------------------- kernel names

Digits == <<"0", "1", "2", "3", "4", "5", "6", "7", "8", "9">>

RECURSIVE to_string(_)
\* std::to_string of a non-negative int
to_string(n) ==
    IF n < 10 THEN <<Digits[n + 1]>>
    ELSE to_string(n \div 10) \o <<Digits[(n % 10) + 1]>>

KernelPrefix == <<"K", "e", "r", "n", "e", "l", "_">>

\* the string Name the constructor builds from its argument name
ResolvedName(name, uid) ==
    IF name = <<>> THEN KernelPrefix \o to_string(uid)
    ELSE IF Head(name) \in Range(Digits) THEN <<"K">> \o name
    ELSE name

\* KernelUID after the constructor resolved name
NextUID(name, uid) == IF name = <<>> THEN uid + 1 ELSE uid

\* ---------------------------------------------------------------- Kernel::Kernel

\* the members of a Kernel object as the class declares them, before the
\* constructor body runs: the flag is false, the pointers are null and the
\* containers are empty.  Name is the member, which the constructor's local
\* variable Name shadows; name, localName, idx, CleanedUp and Escaped record
\* the call for the properties
DeclaredMembers(k) ==
    [idx |-> k, Name |-> <<>>, name |-> <<>>, localName |-> <<>>, Valid |-> FALSE,
     blocks |-> {},
     Entrances |-> {}, ExitTarget |-> EmptyMap, ExitMap |-> EmptyMap,
     Conditional |-> {}, Body |-> {}, Termination |-> {},
     ExternalValues |-> <<>>, VMap |-> EmptyMap, ArgumentMap |-> EmptyMap,
     GlobalMap |-> EmptyMap, LoadMap |-> EmptyMap, StoreMap |-> EmptyMap,
     KernelFunction |-> NULL, FunctionType |-> <<>>, MemoryRead |-> NULL,
     MemoryWrite |-> NULL, Init |-> NULL, Exit |-> NULL, Exception |-> NULL,
     InlinedFunctions |-> <<>>, KernelName |-> EmptyMap, CleanedUp |-> FALSE,
     Escaped |-> FALSE]

\* the first statements of the constructor
NewKernel(k) ==
    [DeclaredMembers(k) EXCEPT
        !.MemoryRead = NULL, !.MemoryWrite = NULL, !.Init = NULL, !.Exit = NULL]

\* the phases of the guarded part of the constructor, in the order of the code
Phases ==
    <<"RecursionCheck", "SplitBlocks", "GetEntrances", "GetExits", "GetConditional",
      "GetExternalValues", "CreateFunction", "BuildKernel", "InlineFunctions",
      "CopyGlobals", "Remap", "Repipe", "ExportFunctionSignatures",
      "GetMemoryFunctions", "UpdateMemory", "BuildInit", "BuildExit",
      "RemapNestedKernels", "ApplyMetadata", "SetValid">>

\* where the constructor goes after the phase ph returned
After(ph) ==
    IF ph = Phases[Len(Phases)] THEN "done" ELSE Phases[IndexOf(Phases, ph) + 1]

\* the blocks of the module M whose BlockID is listed in basicBlocks
BlocksOfIds(ir, ids) == {b \in DOMAIN ir : Owner(b) = 0 /\ ir[b].id \in ids}

\* a constructor that resolves the name and checks it but never reserves it
BeginWithoutReserve ==
    /\ pc = "idle"
    /\ requests # <<>>
    /\ LET name == Head(requests)[1]
           ids == Head(requests)[2]
           Name == ResolvedName(name, KernelUID)
       IN /\ KernelUID' = NextUID(name, KernelUID)
          /\ pc' = IF Name \in reservedNames THEN "escaped" ELSE Phases[1]
          /\ K' = [NewKernel(Len(kernels) + 1) EXCEPT
                      !.name = name, !.localName = Name, !.blocks = BlocksOfIds(IR, ids),
                      !.Escaped = Name \in reservedNames]
    /\ requests' = Tail(requests)
    /\ log' = <<>>
    /\ tikBefore' = TikModule
    /\ UNCHANGED <<IR, order, TikModule, KernelMap, KfMap, kernels, reservedNames>>

\* the constructor up to the try block: the name is resolved and reserved, or
\* the TikException leaves the constructor
Begin ==
    /\ pc = "idle"
    /\ requests # <<>>
    /\ LET name == Head(requests)[1]
           ids == Head(requests)[2]
           Name == ResolvedName(name, KernelUID)
       IN /\ KernelUID' = NextUID(name, KernelUID)
          /\ IF Name \in reservedNames
             THEN /\ pc' = "escaped"
                  /\ K' = [NewKernel(Len(kernels) + 1) EXCEPT
                              !.name = name, !.localName = Name, !.Escaped = TRUE]
                  /\ UNCHANGED reservedNames
             ELSE /\ pc' = Phases[1]
                  /\ reservedNames' = reservedNames \cup {Name}
                  /\ K' = [NewKernel(Len(kernels) + 1) EXCEPT
                              !.name = name, !.localName = Name,
                              !.blocks = BlocksOfIds(IR, ids)]
    /\ requests' = Tail(requests)
    /\ log' = <<>>
    /\ tikBefore' = TikModule
    /\ UNCHANGED <<IR, order, TikModule, KernelMap, KfMap, kernels>>

\* a phase of the try block: it returns with the new state, or it throws a
\* TikException with what it had changed by then
Phase(ph, r) ==
    /\ pc = ph
    /\ log' = Append(log, ph)
    /\ pc' = IF r.thrown THEN "catch" ELSE After(ph)
    /\ K' = r.K
    /\ IR' = r.IR
    /\ TikModule' = r.T
    /\ UNCHANGED <<order, requests, reservedNames, KernelUID, KernelMap, KfMap, kernels,
                   tikBefore>>

Returned(k, ir, t) == [thrown |-> FALSE, K |-> k, IR |-> ir, T |-> t]
Thrown(k, ir, t) == [thrown |-> TRUE, K |-> k, IR |-> ir, T |-> t]

\* the recursion check: a call in a block of S to the function that holds it
IsRecursive(ir, blocks) ==
    \E b \in blocks : \E i \in DOMAIN ir[b].insts :
        IsCallBase(ir[b].insts[i]) /\ ir[b].insts[i].callee = ir[b].parent

RecursionCheck ==
    Phase("RecursionCheck",
          IF IsRecursive(IR, K.blocks) THEN Thrown(K, IR, TikModule)
          ELSE Returned(K, IR, TikModule))

DoSplitBlocks ==
    Phase("SplitBlocks",
          LET r == SplitBlocks(IR, K.blocks, order)
          IN Returned([K EXCEPT !.blocks = r.blocks], r.ir, TikModule))

DoGetEntrances ==
    Phase("GetEntrances",
          LET k == [K EXCEPT !.Entrances = GetEntrances(IR, K.blocks, KernelMap)]
          IN IF k.Entrances = {} THEN Thrown(k, IR, TikModule)
             ELSE Returned(k, IR, TikModule))

DoGetExits ==
    Phase("GetExits",
          LET r == GetExits(IR, K.blocks, order)
              k == [K EXCEPT !.ExitTarget = r.ExitTarget, !.ExitMap = r.ExitMap]
          IN IF r.exitId = 0 THEN Thrown(k, IR, TikModule)
             ELSE Returned(k, IR, TikModule))

DoGetConditional ==
    Phase("GetConditional",
          LET r == GetConditional(IR, K.blocks)
          IN Returned([K EXCEPT !.Conditional = r.Conditional, !.Body = r.Body,
                                !.Termination = r.Termination], IR, TikModule))

DoGetExternalValues ==
    Phase("GetExternalValues",
          Returned([K EXCEPT !.ExternalValues =
                       GetExternalValues(IR, K.blocks, order, KfMap, kernels)],
                   IR, TikModule))

\* the KernelFunction with its arguments bound to ExternalValues, and the
\* three artificial blocks
CreateFunction(k, ir, t) ==
    LET ev == k.ExternalValues
        kf == KernelFunctionOf(k.idx)
        k1 == [k EXCEPT
                 !.FunctionType = <<"i8">> \o [i \in DOMAIN ev |-> TypeOf(ev[i])],
                 !.KernelFunction = kf,
                 !.VMap = [v \in Range(ev) |-> KArg(k.idx, IndexOf(ev, v))],
                 !.ArgumentMap = [a \in {KArg(k.idx, i) : i \in DOMAIN ev} |-> ev[a[4]]],
                 !.Init = InitOf(k.idx), !.Exit = ExitOf(k.idx),
                 !.Exception = ExceptionOf(k.idx)]
        ir1 == [h \in DOMAIN ir \cup {InitOf(k.idx), ExitOf(k.idx), ExceptionOf(k.idx)} |->
                  IF h \in DOMAIN ir THEN ir[h] ELSE Block(kf, -1, <<>>)]
    IN Returned(k1, ir1, [t EXCEPT !.functions = @ \cup {kf}])

DoCreateFunction == Phase("CreateFunction", CreateFunction(K, IR, TikModule))

\* ---------------------------------------------------------------- Kernel Builder

AddBlock(ir, h, blk) == [x \in DOMAIN ir \cup {h} |-> IF x = h THEN blk ELSE ir[x]]

IntermediateOf(k, block, i) == <<k, "inter", block[3], i>>
BridgeOf(k, block, i, id) == <<k, "bridge", 100 * block[3] + 10 * i + id, 0>>

RECURSIVE NestedCases(_, _, _, _, _, _)
\* the loop over nestedKernel->ExitTarget for one intermediate block: acc holds
\* the kernel, the IR, the switch under construction and handeledExits
NestedCases(acc, nested, block, i, ids, blocks) ==
    IF ids = <<>> \/ acc.thrown THEN acc
    ELSE LET id == Head(ids)
             target == nested.ExitTarget[id]
             k == acc.K
         IN IF target \in blocks
            THEN NestedCases([acc EXCEPT !.sw.args = Append(@, Const(id)),
                                         !.sw.blks = Append(@, target)],
                             nested, block, i, Tail(ids), blocks)
            ELSE IF target \in acc.handeledExits
            THEN NestedCases(acc, nested, block, i, Tail(ids), blocks)
            ELSE LET nExits == {b \in DOMAIN nested.ExitMap : nested.ExitMap[b] = id}
                 IN IF Cardinality(nExits) # 1 THEN [acc EXCEPT !.thrown = TRUE]
                    ELSE LET tar == CHOOSE b \in nExits : TRUE
                             newBlock == BridgeOf(k.idx, block, i, id)
                             br == I(Synth(k.idx, 4000 + newBlock[3], 0), "br", NULL, <<>>,
                                     <<k.Exit>>)
                             index == Lookup(k.ExitMap, tar, 0)
                         IN NestedCases(
                              [acc EXCEPT
                                 !.IR = AddBlock(@, newBlock, Block(k.KernelFunction, -1, <<br>>)),
                                 !.sw.args = Append(@, Const(id)),
                                 !.sw.blks = Append(@, newBlock),
                                 !.K.ExitMap = Put(Drop(@, tar), newBlock, index),
                                 !.handeledExits = @ \cup {target}],
                              nested, block, i, Tail(ids), blocks)

RECURSIVE NestedEntrances(_, _, _, _, _, _)
\* the loop over nestedKernel->Entrances for a block that is one of them: one
\* intermediate block with a KernelCall and a switch per entrance
NestedEntrances(acc, nested, block, ents, i, blocks) ==
    IF ents = <<>> \/ acc.thrown THEN acc
    ELSE LET k == acc.K
             inter == IntermediateOf(k.idx, block, i)
             nargs == Len(nested.FunctionType)
             inargs == [j \in 1..nargs |-> IF j = 1 THEN Const(i) ELSE KArg(nested.idx, j - 1)]
             cc == [I(Synth(k.idx, 2000 + block[3], i), "call", nested.KernelFunction,
                      inargs, <<>>) EXCEPT !.md = {"KernelCall"}]
             sw0 == I(Synth(k.idx, 3000 + block[3], i), "switch", NULL, <<cc.v>>,
                      <<k.Exception>>)
             exitIds == SetToSeqAsc(DOMAIN nested.ExitTarget)
             a1 == NestedCases([acc EXCEPT !.sw = sw0], nested, block, i, exitIds, blocks)
             a2 == [a1 EXCEPT
                      !.IR = AddBlock(@, inter, Block(k.KernelFunction, -1, <<cc, a1.sw>>)),
                      !.K.VMap = Put(@, block, inter)]
             \* Body.insert(intermediateBlock); Body.erase(intermediateBlock);
             a3 == IF block \in a1.K.Body
                   THEN [a2 EXCEPT !.K.Body = (@ \cup {inter}) \ {inter}]
                   ELSE IF block \in a1.K.Termination
                   THEN [a2 EXCEPT !.K.Termination = (@ \cup {inter}) \ {inter}]
                   ELSE [a2 EXCEPT !.thrown = TRUE]
         IN IF a1.thrown THEN a1
            ELSE NestedEntrances(a3, nested, block, Tail(ents), i + 1, blocks)

\* CloneBasicBlock(block, VMap, "", KernelFunction): a copy of every
\* instruction, operands as in the original, each recorded in VMap
CloneInst(k, inst) == [inst EXCEPT !.v = CloneOf(k, inst.v)]

\* the phis at the head of the clone name Init in place of every incoming
\* block that is not in blocks
FixPhis(insts, blocks, init) ==
    LET IsHeadPhi(j) == \A x \in 1..j : insts[x].op = "phi"
    IN [j \in DOMAIN insts |->
          IF IsHeadPhi(j)
          THEN [insts[j] EXCEPT !.blks = [x \in DOMAIN insts[j].blks |->
                                           IF insts[j].blks[x] \notin blocks THEN init
                                           ELSE insts[j].blks[x]]]
          ELSE insts[j]]

CloneBlock(acc, block, blocks) ==
    LET k == acc.K
        cb == CloneOf(k.idx, block)
        src == acc.IR[block].insts
        cloned == [j \in DOMAIN src |-> CloneInst(k.idx, src[j])]
        vmap == [h \in DOMAIN k.VMap \cup {src[j].v : j \in DOMAIN src} \cup {block} |->
                   IF h = block THEN cb
                   ELSE IF \E j \in DOMAIN src : src[j].v = h THEN CloneOf(k.idx, h)
                   ELSE k.VMap[h]]
        cond == IF block \in k.Conditional THEN (k.Conditional \ {block}) \cup {cb}
                ELSE k.Conditional
        a1 == [acc EXCEPT
                 !.IR = AddBlock(@, cb, Block(k.KernelFunction, acc.IR[block].id,
                                              FixPhis(cloned, blocks, k.Init))),
                 !.K.VMap = vmap,
                 !.K.Conditional = cond]
    IN IF block \in k.Body
       THEN [a1 EXCEPT !.K.Body = (@ \ {block}) \cup {cb}]
       ELSE IF block \in k.Termination
       THEN [a1 EXCEPT !.K.Termination = (@ \ {block}) \cup {cb}]
       ELSE [a1 EXCEPT !.K.VMap = Put(k.VMap, block, cb), !.thrown = TRUE]

RECURSIVE BuildKernelLoop(_, _, _, _, _, _)
BuildKernelLoop(acc, todo, blocks, kmap, ks, ord) ==
    IF todo = <<>> \/ acc.thrown THEN acc
    ELSE LET block == Head(todo)
             id == acc.IR[block].id
             a1 == IF id \in DOMAIN kmap
                   THEN LET nested == ks[kmap[id]]
                        IN IF block \in nested.Entrances
                           THEN NestedEntrances(acc, nested, block,
                                                SetToSeq(nested.Entrances, ord), 0, blocks)
                           ELSE acc
                   ELSE CloneBlock(acc, block, blocks)
         IN BuildKernelLoop(a1, Tail(todo), blocks, kmap, ks, ord)

BuildKernel(k, ir, t, kmap, ks, ord) ==
    LET r == BuildKernelLoop([K |-> k, IR |-> ir, handeledExits |-> {}, thrown |-> FALSE,
                              sw |-> I(NULL, "switch", NULL, <<>>, <<>>)],
                             SetToSeq(k.blocks, ord), k.blocks, kmap, ks, ord)
    IN [thrown |-> r.thrown, K |-> r.K, IR |-> r.IR, T |-> t]

DoBuildKernel ==
    Phase("BuildKernel", BuildKernel(K, IR, TikModule, KernelMap, kernels, order))

\* ---------------------------------------------------------------- Inliner

\* the blocks of a function, in the order of its block list
FunctionBlocks(ir, f, ord) == SetToSeq(BlocksOf(ir, f), ord)

RECURSIVE Flatten(_)
Flatten(ss) == IF ss = <<>> THEN <<>> ELSE Head(ss) \o Flatten(Tail(ss))

\* every instruction of a function, block by block, as <<block, instruction>>
InstsOf(ir, f, ord) ==
    LET bs == FunctionBlocks(ir, f, ord)
    IN Flatten([i \in DOMAIN bs |->
                  [j \in DOMAIN ir[bs[i]].insts |-> <<bs[i], ir[bs[i]].insts[j]>>]])

\* number of formal arguments of a function of the input module
NumArgs(f) == IF f = MainFn THEN 2 ELSE 1

\* whether an instruction lives in TikModule: its function is attached to it
InTikModule(ir, t, b) == ir[b].parent \in t.functions

ReplaceInsts(ir, b, insts) == [ir EXCEPT ![b].insts = insts]

\* erase the instruction v from its block
EraseInst(ir, v) ==
    LET b == ParentOf(ir, v)
        keep == {i \in DOMAIN ir[b].insts : ir[b].insts[i].v # v}
        old == ir[b].insts
    IN IF b = NULL THEN ir
       ELSE ReplaceInsts(ir, b, [i \in 1..Cardinality(keep) |->
                old[CHOOSE j \in keep : Cardinality({x \in keep : x < j}) = i - 1]])

\* v->replaceAllUsesWith(w): every operand v, anywhere, becomes w
ReplaceAllUsesWith(ir, v, w) ==
    [b \in DOMAIN ir |->
        [ir[b] EXCEPT !.insts = [i \in DOMAIN ir[b].insts |->
            [ir[b].insts[i] EXCEPT !.args = [j \in DOMAIN @ |-> IF @[j] = v THEN w ELSE @[j]]]]]]

\* cTerm->setSuccessor(i, to)
SetSuccessor(ir, b, i, to) ==
    [ir EXCEPT ![b].insts[Len(ir[b].insts)].blks[i] = to]

\* the call sites of calledFunc that the inliner gathers: calls in TikModule;
\* a user that is neither a call nor a store makes it throw
CallUses(ir, t, calledFunc, ord) ==
    LET us == Users(ir, calledFunc)
        calls == {u \in us : ir[u[1]].insts[u[2]].op = "call" /\ InTikModule(ir, t, u[1])}
        bs == SetToSeq({u[1] : u \in calls}, ord)
    IN [i \in DOMAIN bs |->
          LET u == CHOOSE x \in calls : x[1] = bs[i] IN <<bs[i], ir[bs[i]].insts[u[2]]>>]

UnexpectedUser(ir, calledFunc) ==
    \E u \in Users(ir, calledFunc) : ir[u[1]].insts[u[2]].op \notin {"call", "store"}

\* VMap is a ValueMap of tracking handles: an entry follows the value it
\* holds, or its key, through replaceAllUsesWith
FollowRAUW(vmap, v, w) ==
    [h \in {IF x = v THEN w ELSE x : x \in DOMAIN vmap} |->
        LET x == IF h = w /\ v \in DOMAIN vmap THEN v ELSE h
        IN IF vmap[x] = v THEN w ELSE vmap[x]]

\* and an erased value leaves a null handle, an erased key no entry
FollowErase(vmap, vs) ==
    [h \in DOMAIN vmap \ vs |-> IF vmap[h] \in vs THEN NULL ELSE vmap[h]]

RECURSIVE RedirectReturns(_, _, _, _)
\* the loop over the blocks of calledFunc: a block (its image in VMap when it
\* has one) that ends in a return ends in a branch to returnBlock instead
RedirectReturns(acc, k, todo, returnBlock) ==
    IF todo = <<>> THEN acc
    ELSE LET fb == IF Head(todo) \in DOMAIN k.VMap THEN k.VMap[Head(todo)] ELSE Head(todo)
             ir == acc.IR
         IN IF HasTerminator(ir, fb) /\ Terminator(ir, fb).op = "ret"
            THEN LET ri == Terminator(ir, fb)
                     br == I(Synth(k.idx, 5500 + fb[3], 0), "br", NULL, <<>>, <<returnBlock>>)
                 IN RedirectReturns(
                      [IR |-> ReplaceInsts(ir, fb, SubSeq(ir[fb].insts, 1, Len(ir[fb].insts) - 1)
                                                   \o <<br>>),
                       returnMap |-> Put(acc.returnMap, fb,
                                         IF ri.args = <<>> THEN NULL ELSE ri.args[1])],
                      k, Tail(todo), returnBlock)
            ELSE RedirectReturns(acc, k, Tail(todo), returnBlock)

\* the blocks of the call sites of calledFunc, in the order they were gathered
FuncUses(ir, t, f, ord) ==
    LET uses == CallUses(ir, t, f, ord) IN [i \in DOMAIN uses |-> uses[i][1]]

EntranceBlockOf(k, f) == <<k.idx, "entrance", f[3], 0>>

ReturnBlockOf(k, f) == <<k.idx, "return", f[3], 0>>

\* the phi that tells the call sites apart
BranchPhi(k, f, funcUses) ==
    I(Synth(k.idx, 5000 + f[3], 0), "phi", NULL,
      [i \in DOMAIN funcUses |-> Const(i - 1)], funcUses)

\* one phi per argument of calledFunc, fed with the operands of the call ci
ArgPhis(k, ci, funcUses) ==
    [a \in 1..NumArgs(ci.callee) |->
        I(Synth(k.idx, 5100 + ci.callee[3], a - 1), "phi", NULL,
          [i \in DOMAIN funcUses |-> ci.args[a]], funcUses)]

\* the phi of the returned values, one incoming per redirected block
ReturnPhi(k, f, returnMap, ord) ==
    LET rblocks == SetToSeq(DOMAIN returnMap, ord)
    IN I(Synth(k.idx, 5300 + f[3], 0), "phi", NULL,
         [i \in DOMAIN rblocks |-> returnMap[rblocks[i]]], rblocks)

\* the number of call sites the switch loop handles before it throws on a
\* terminator that is not a branch
LastOk(ir, funcUses) ==
    LET BadTerm(i) == ~(HasTerminator(ir, funcUses[i]) /\ Terminator(ir, funcUses[i]).op = "br")
    IN IF \E i \in DOMAIN funcUses : BadTerm(i)
       THEN (CHOOSE i \in DOMAIN funcUses : BadTerm(i) /\ \A j \in 1..(i - 1) : ~BadTerm(j)) - 1
       ELSE Len(funcUses)

\* the switch of the return block and the bookkeeping of the inlining
InlineSwitch(acc, ci, cb, funcUses, vmap, ir1, rr, returnPhi, ir2, lastOk) ==
    LET k == acc.K
        f == ci.callee
        entranceBlock == EntranceBlockOf(k, f)
        returnBlock == ReturnBlockOf(k, f)
        branchPhi == BranchPhi(k, f, funcUses)
        argPhis == ArgPhis(k, ci, funcUses)
        sw == I(Synth(k.idx, 5400 + f[3], 0), "switch", NULL,
                <<branchPhi.v>> \o [i \in 1..lastOk |-> Const(i - 1)],
                <<k.Exception>> \o [i \in 1..lastOk |-> Terminator(ir2, funcUses[i]).blks[1]])
        ir3 == ReplaceInsts(ir2, returnBlock, <<returnPhi, sw>>)
        struct == [CalledFunction |-> f, entranceBlock |-> entranceBlock,
                   returnBlock |-> returnBlock,
                   branchPhi |-> branchPhi.v, phiIndex |-> Len(funcUses),
                   currentIndex |-> lastOk, ArgNodes |-> [a \in DOMAIN argPhis |-> argPhis[a].v],
                   returnPhi |-> returnPhi.v, SwitchInstruction |-> sw.v]
        erased == {Terminator(ir1, fb).v : fb \in DOMAIN rr.returnMap}
        vmap2 == FollowRAUW(FollowErase(vmap, erased), ci.v, returnPhi.v)
    IN IF lastOk < Len(funcUses)
       THEN [acc EXCEPT !.thrown = TRUE, !.IR = ir3,
                        !.K = [k EXCEPT !.VMap = vmap2,
                                        !.Body = @ \cup {entranceBlock, returnBlock}]]
       ELSE [acc EXCEPT
               !.IR = EraseInst(SetSuccessor(ir3, cb, 1, entranceBlock), ci.v),
               !.K = [k EXCEPT !.VMap = vmap2, !.Body = @ \cup {entranceBlock, returnBlock},
                               !.InlinedFunctions = Append(@, struct)]]

\* the returns of calledFunc become branches to the return block, and the
\* uses of the call become uses of the return phi
InlineReturns(acc, ci, cb, ord, funcUses, vmap, ir1, rr) ==
    LET returnPhi == ReturnPhi(acc.K, ci.callee, rr.returnMap, ord)
        ir2 == ReplaceAllUsesWith(rr.IR, ci.v, returnPhi.v)
    IN InlineSwitch(acc, ci, cb, funcUses, vmap, ir1, rr, returnPhi, ir2, LastOk(ir2, funcUses))

\* the entrance block with its phis and the empty return block
InlineEntrance(acc, ci, cb, ord, funcUses) ==
    LET k == acc.K
        f == ci.callee
        argPhis == ArgPhis(k, ci, funcUses)
        brIn == I(Synth(k.idx, 5200 + f[3], 0), "br", NULL, <<>>, <<EntryBlock(f)>>)
        vmap == [h \in DOMAIN k.VMap \cup {Arg(f, a - 1) : a \in 1..NumArgs(f)} |->
                   IF h \in {Arg(f, a - 1) : a \in 1..NumArgs(f)}
                   THEN argPhis[h[4] + 1].v ELSE k.VMap[h]]
        ir1 == AddBlock(AddBlock(acc.IR, EntranceBlockOf(k, f),
                                 Block(k.KernelFunction, -1,
                                       <<BranchPhi(k, f, funcUses)>> \o argPhis \o <<brIn>>)),
                        ReturnBlockOf(k, f), Block(k.KernelFunction, -1, <<>>))
    IN InlineReturns(acc, ci, cb, ord, funcUses, vmap, ir1,
                     RedirectReturns([IR |-> ir1, returnMap |-> EmptyMap], k,
                                     FunctionBlocks(ir1, f, ord), ReturnBlockOf(k, f)))

\* the first inlining of calledFunc at the call ci of block cb
InlineFirst(acc, t, ci, cb, ord) ==
    IF UnexpectedUser(acc.IR, ci.callee)
    THEN [acc EXCEPT !.thrown = TRUE,
                     !.K.Body = @ \cup {EntranceBlockOf(acc.K, ci.callee)},
                     !.IR = AddBlock(@, EntranceBlockOf(acc.K, ci.callee),
                                     Block(acc.K.KernelFunction, -1, <<>>))]
    ELSE InlineEntrance(acc, ci, cb, ord, FuncUses(acc.IR, t, ci.callee, ord))

RECURSIVE InlineLoop(_, _, _, _)
\* the loop over toInline
InlineLoop(acc, t, toInline, ord) ==
    IF toInline = <<>> \/ acc.thrown THEN acc
    ELSE LET ci == Head(toInline)
             cb == ParentOf(acc.IR, ci.v)
             inl == acc.K.InlinedFunctions
             found == {i \in DOMAIN inl : inl[i].CalledFunction = ci.callee}
         IN IF ci.callee = NULL THEN [acc EXCEPT !.thrown = TRUE]
            ELSE IF FunctionEmpty(acc.IR, ci.callee) THEN InlineLoop(acc, t, Tail(toInline), ord)
            ELSE IF found = {} THEN InlineLoop(InlineFirst(acc, t, ci, cb, ord), t,
                                               Tail(toInline), ord)
            ELSE LET cs == inl[CHOOSE i \in found : TRUE]
                 IN InlineLoop([acc EXCEPT !.IR = EraseInst(SetSuccessor(@, cb, 1,
                                                                        cs.entranceBlock), ci.v),
                                           !.K.VMap = FollowErase(@, {ci.v})],
                               t, Tail(toInline), ord)

\* the calls of KernelFunction that are not KernelCalls
ToInline(ir, k, ord) ==
    LET all == InstsOf(ir, k.KernelFunction, ord)
        idx == {i \in DOMAIN all : all[i][2].op = "call" /\ "KernelCall" \notin all[i][2].md}
    IN [i \in 1..Cardinality(idx) |->
          all[CHOOSE j \in idx : Cardinality({x \in idx : x < j}) = i - 1][2]]

InlineFunctions(k, ir, t, ord) ==
    [T |-> t] @@ InlineLoop([K |-> k, IR |-> ir, thrown |-> FALSE], t, ToInline(ir, k, ord), ord)

DoInlineFunctions == Phase("InlineFunctions", InlineFunctions(K, IR, TikModule, order))

\* ---------------------------------------------------------------- Finalizer

\* the instructions of a block rewritten one by one
MapInsts(ir, f, G(_)) ==
    [b \in DOMAIN ir |->
        IF ir[b].parent = f
        THEN [ir[b] EXCEPT !.insts = [i \in DOMAIN ir[b].insts |-> G(ir[b].insts[i])]]
        ELSE ir[b]]

CopiedGlobal(k, gv) == <<k, "gvcopy", gv[3], 0>>

\* the operands CopyArgument and CopyOperand look at: the arguments of a call,
\* every operand of another instruction
RECURSIVE CopyGlobalsLoop(_, _)
\* acc: the VMap, the globals created and whether CopyOperand threw
CopyGlobalsLoop(acc, insts) ==
    IF insts = <<>> \/ acc.thrown THEN acc
    ELSE LET inst == Head(insts)[2]
             gvs == {v \in Range(inst.args) : Kind(v) = "gv" /\ v \notin DOMAIN acc.VMap}
             a1 == [acc EXCEPT
                      !.VMap = [h \in DOMAIN acc.VMap \cup gvs |->
                                  IF h \in gvs THEN CopiedGlobal(acc.k, h) ELSE acc.VMap[h]],
                      !.globals = @ \cup {CopiedGlobal(acc.k, h) : h \in gvs}]
         IN IF IsCallBase(inst) THEN CopyGlobalsLoop(a1, Tail(insts))
            ELSE IF \E j \in DOMAIN inst.args : IsFunction(inst.args[j])
            THEN LET j == CHOOSE x \in DOMAIN inst.args :
                              IsFunction(inst.args[x])
                              /\ \A y \in 1..(x - 1) : ~IsFunction(inst.args[y])
                     before == {v \in gvs : \E y \in 1..(j - 1) : inst.args[y] = v}
                 IN [acc EXCEPT
                       !.VMap = [h \in DOMAIN acc.VMap \cup before |->
                                   IF h \in before THEN CopiedGlobal(acc.k, h) ELSE acc.VMap[h]],
                       !.globals = @ \cup {CopiedGlobal(acc.k, h) : h \in before},
                       !.thrown = TRUE]
            ELSE CopyGlobalsLoop(a1, Tail(insts))

CopyGlobals(k, ir, t, ord) ==
    LET r == CopyGlobalsLoop([VMap |-> k.VMap, globals |-> {}, thrown |-> FALSE, k |-> k.idx],
                             InstsOf(ir, k.KernelFunction, ord))
    IN [thrown |-> r.thrown, K |-> [k EXCEPT !.VMap = r.VMap], IR |-> ir,
        T |-> [t EXCEPT !.globals = @ \cup r.globals]]

DoCopyGlobals == Phase("CopyGlobals", CopyGlobals(K, IR, TikModule, order))

\* RemapInstruction with RF_None: an operand with a non-null entry in VMap is
\* replaced by it, any other operand is left as it is
MapValue(vmap, v) == IF v \in DOMAIN vmap /\ vmap[v] # NULL THEN vmap[v] ELSE v

RemapInstruction(inst, vmap) ==
    [inst EXCEPT !.args = [j \in DOMAIN @ |-> MapValue(vmap, @[j])],
                 !.blks = [j \in DOMAIN @ |-> MapValue(vmap, @[j])],
                 !.callee = MapValue(vmap, @)]

Remap(k, ir, t) ==
    LET G(inst) == RemapInstruction(inst, k.VMap)
    IN Returned(k, MapInsts(ir, k.KernelFunction, G), t)

DoRemap == Phase("Remap", Remap(K, IR, TikModule))

\* a Repipe that leaves every successor as it is
RepipeNothing(k, ir, t) == Returned(k, ir, t)

\* every successor that is not a block of KernelFunction becomes Exit
Repipe(k, ir, t) ==
    LET G(inst) ==
            IF inst.op \in Terminators
            THEN [inst EXCEPT !.blks = [j \in DOMAIN @ |->
                                          IF @[j] \notin BlocksOf(ir, k.KernelFunction) THEN k.Exit
                                          ELSE @[j]]]
            ELSE inst
    IN Returned(k, MapInsts(ir, k.KernelFunction, G), t)

DoRepipe == Phase("Repipe", Repipe(K, IR, TikModule))

\* TikModule->getOrInsertFunction(name, type): the function of that name in
\* TikModule, or a new declaration of it there
Declaration(f) == <<-1, "fn", f[3], 0>>
GetOrInsertFunction(t, f) == IF f \in t.functions THEN f ELSE Declaration(f)

ExportFunctionSignatures(k, ir, t) ==
    LET Exported(inst) == IsCallBase(inst) /\ inst.callee \notin {k.MemoryRead, k.MemoryWrite}
        G(inst) == IF Exported(inst)
                   THEN [inst EXCEPT !.callee = GetOrInsertFunction(t, inst.callee)]
                   ELSE inst
        decls == {GetOrInsertFunction(t, ir[b].insts[i].callee) :
                    <<b, i>> \in {u \in UNION {{b} \X DOMAIN ir[b].insts :
                                                 b \in BlocksOf(ir, k.KernelFunction)} :
                                    Exported(ir[u[1]].insts[u[2]])}}
    IN Returned(k, MapInsts(ir, k.KernelFunction, G), [t EXCEPT !.functions = @ \cup decls])

DoExportFunctionSignatures ==
    Phase("ExportFunctionSignatures", ExportFunctionSignatures(K, IR, TikModule))

\* ---------------------------------------------------------------- Memory Rewriter

KindCodes == <<"inst", "synth", "arg", "gv", "gvcopy", "promoted", "fn", "const", "null">>

\* a number for a value, one per value
ValueCode(v) == ((IndexOf(KindCodes, Kind(v)) * 10 + (Owner(v) + 1)) * 10000 + v[3]) * 10 + v[4]

RECURSIVE ValuesToSeq(_, _)
\* std::set<Value *> in address order
ValuesToSeq(S, ord) ==
    IF S = {} THEN <<>>
    ELSE LET m == CHOOSE x \in S : \A y \in S : ord * ValueCode(x) <= ord * ValueCode(y)
         IN <<m>> \o ValuesToSeq(S \ {m}, ord)

PromotedGlobal(k, v) == <<k, "promoted", ValueCode(v), 0>>

PointerOperand(inst) == IF inst.op = "load" THEN inst.args[1] ELSE inst.args[2]

\* the pointer operands of the loads (stores) of KernelFunction
PointerValues(ir, f, op) ==
    {PointerOperand(ir[b].insts[i]) :
        <<b, i>> \in {u \in UNION {{b} \X DOMAIN ir[b].insts : b \in BlocksOf(ir, f)} :
                        ir[u[1]].insts[u[2]].op = op}}

\* GlobalMap after the promotion of the pointers vals
Promote(k, gmap, vals) ==
    [v \in DOMAIN gmap \cup vals |-> IF v \in DOMAIN gmap THEN gmap[v] ELSE PromotedGlobal(k, v)]

RECURSIVE RewriteInsts(_, _, _, _)
\* the rewrite loop over the instructions of one block: done holds the
\* instructions already emitted, acc the side tables loadMap and storeMap and
\* the replacements newInst -> newLoad made so far
RewriteInsts(acc, k, done, insts) ==
    IF insts = <<>> \/ acc.thrown THEN [acc EXCEPT !.out = done]
    ELSE LET raw == Head(insts)
             inst == [raw EXCEPT !.args = [j \in DOMAIN @ |-> Lookup(acc.rauw, @[j], @[j])]]
             ptr == PointerOperand(inst)
             n == ValueCode(inst.v)
         IN IF inst.op = "load"
            THEN IF ptr \notin DOMAIN acc.loadMap
                 THEN [acc EXCEPT !.thrown = TRUE, !.out = done \o insts]
                 ELSE LET memCall == I(Synth(k.idx, 6000, n), "call", k.MemoryRead,
                                       <<Const(acc.loadMap[ptr])>>, <<>>)
                          casted == [I(Synth(k.idx, 6100, n), "inttoptr", NULL,
                                       <<memCall.v>>, <<>>) EXCEPT !.md = {"TikSynthetic.Cast"}]
                          newLoad == I(Synth(k.idx, 6200, n), "load", NULL, <<casted.v>>, <<>>)
                          Rekey(m) == IF inst.v \in DOMAIN m
                                      THEN Put(Drop(m, inst.v), newLoad.v, m[inst.v]) ELSE m
                      IN RewriteInsts([acc EXCEPT !.rauw = Put(@, inst.v, newLoad.v),
                                                  !.loadMap = Rekey(@),
                                                  !.storeMap = Rekey(@)],
                                      k, done \o <<memCall, casted, newLoad>>, Tail(insts))
            ELSE IF inst.op = "store"
            THEN IF ptr \notin DOMAIN acc.storeMap
                 THEN [acc EXCEPT !.thrown = TRUE, !.out = done \o insts]
                 ELSE LET memCall == I(Synth(k.idx, 6300, n), "call", k.MemoryWrite,
                                       <<Const(acc.storeMap[ptr])>>, <<>>)
                          casted == [I(Synth(k.idx, 6400, n), "inttoptr", NULL,
                                       <<memCall.v>>, <<>>) EXCEPT !.md = {"TikSynthetic.Cast"}]
                          newStore == I(Synth(k.idx, 6500, n), "store", NULL,
                                        <<inst.args[1], casted.v>>, <<>>)
                      IN RewriteInsts([acc EXCEPT !.erased = @ \cup {inst.v}],
                                      k, done \o <<memCall, casted, newStore>>, Tail(insts))
            ELSE RewriteInsts(acc, k, done \o <<inst>>, Tail(insts))

RECURSIVE RewriteBlocks(_, _, _)
RewriteBlocks(acc, k, todo) ==
    IF todo = <<>> \/ acc.thrown THEN acc
    ELSE LET b == Head(todo)
             r == RewriteInsts(acc, k, <<>>, acc.IR[b].insts)
         IN RewriteBlocks([r EXCEPT !.IR = ReplaceInsts(acc.IR, b, r.out)], k, Tail(todo))

\* the body of MemoryRead (MemoryWrite) over the index table map: entry i + 1
\* is the converted pointer of the global map[i], selected when the argument
\* equals i; the first entry is the value the chain of selects starts from
MemoryHelperBody(map) ==
    [j \in 1..Cardinality(DOMAIN map) |-> [index |-> j - 1, global |-> map[j - 1]]]

\* a chain of selects that always yields the value it starts from
SelectsFirst(body, j, arg) == body[1].global

RECURSIVE EvalSelects(_, _, _)
\* select(arg == index, converted, priorValue), from the last select inwards
EvalSelects(body, j, arg) ==
    IF j = 1 THEN body[1].global
    ELSE IF arg = body[j].index THEN body[j].global
    ELSE EvalSelects(body, j - 1, arg)

\* the global whose pointer the helper returns for the argument arg, as an
\* integer; Const(0) is the return of a helper without pointers
HelperReturns(body, arg) ==
    IF body = <<>> THEN Const(0) ELSE EvalSelects(body, Len(body), arg)

\* the kernel once MemoryRead, MemoryWrite and the index tables exist: gmap1
\* is GlobalMap after the loads were promoted, gmap2 after the stores too
MemoryTables(k, loadValues, storeValues, gmap1, gmap2) ==
    [k EXCEPT
       !.MemoryRead = MemoryReadOf(k.idx),
       !.MemoryWrite = MemoryWriteOf(k.idx),
       !.GlobalMap = gmap2,
       !.VMap = [v \in DOMAIN k.VMap \cup Range(loadValues) |->
                   IF v \in Range(loadValues) THEN gmap1[v] ELSE k.VMap[v]],
       !.LoadMap = [i \in 0..(Len(loadValues) - 1) |-> gmap1[loadValues[i + 1]]],
       !.StoreMap = [i \in 0..(Len(storeValues) - 1) |-> gmap2[storeValues[i + 1]]]]

\* replaceAllUsesWith reaches the uses in the blocks rewritten earlier too
RewriteUses(ir, f, rauw) ==
    LET G(inst) == [inst EXCEPT !.args = [j \in DOMAIN @ |-> Lookup(rauw, @[j], @[j])]]
    IN MapInsts(ir, f, G)

\* and so do the handles of VMap
RewriteHandles(vmap, rauw, erased) ==
    [h \in {Lookup(rauw, x, x) : x \in DOMAIN vmap \ erased} |->
        LET x == CHOOSE y \in DOMAIN vmap \ erased : Lookup(rauw, y, y) = h
        IN IF vmap[x] \in erased THEN NULL ELSE Lookup(rauw, vmap[x], vmap[x])]

\* the rewrite of every load and store of KernelFunction, k1 being the kernel
\* with its tables
RewriteMemory(k1, ir, ord, loadValues, storeValues) ==
    RewriteBlocks([IR |-> ir, thrown |-> FALSE, out |-> <<>>, rauw |-> EmptyMap,
                   erased |-> {},
                   loadMap |-> [v \in Range(loadValues) |-> IndexOf(loadValues, v) - 1],
                   storeMap |-> [v \in Range(storeValues) |-> IndexOf(storeValues, v) - 1]],
                  k1, FunctionBlocks(ir, k1.KernelFunction, ord))

RewriteResult(k1, t1, r) ==
    [thrown |-> r.thrown, K |-> [k1 EXCEPT !.VMap = RewriteHandles(@, r.rauw, r.erased)],
     IR |-> RewriteUses(r.IR, k1.KernelFunction, r.rauw), T |-> t1]

PromoteAndRewrite(k, ir, t, ord, loadValues, storeValues, gmap1, gmap2) ==
    RewriteResult(MemoryTables(k, loadValues, storeValues, gmap1, gmap2),
                  [t EXCEPT !.functions = @ \cup {MemoryReadOf(k.idx), MemoryWriteOf(k.idx)},
                            !.globals = @ \cup (Range(gmap2) \ Range(k.GlobalMap))],
                  RewriteMemory(MemoryTables(k, loadValues, storeValues, gmap1, gmap2),
                                ir, ord, loadValues, storeValues))

PromotePointers(k, ir, t, ord, loadValues, storeValues, gmap1) ==
    PromoteAndRewrite(k, ir, t, ord, loadValues, storeValues, gmap1,
                      Promote(k.idx, gmap1, Range(storeValues)))

\* GetMemoryFunctions: MemoryRead and MemoryWrite, the promoted globals, the
\* index tables, and the rewrite of every load and store of KernelFunction
GetMemoryFunctions(k, ir, t, ord) ==
    LET loadValues == ValuesToSeq(PointerValues(ir, k.KernelFunction, "load"), ord)
        storeValues == ValuesToSeq(PointerValues(ir, k.KernelFunction, "store"), ord)
    IN PromotePointers(k, ir, t, ord, loadValues, storeValues,
                       Promote(k.idx, k.GlobalMap, Range(loadValues)))

DoGetMemoryFunctions ==
    Phase("GetMemoryFunctions", GetMemoryFunctions(K, IR, TikModule, order))

RECURSIVE SeedStores(_, _, _)
\* the first loop of UpdateMemory: a store into the global of every external
\* value whose image in VMap is a key of GlobalMap
SeedStores(acc, k, i) ==
    IF i > Len(k.ExternalValues) THEN acc
    ELSE LET key == Lookup(k.VMap, k.ExternalValues[i], NULL)
         IN IF key \in DOMAIN k.GlobalMap
            THEN LET b == [I(Synth(k.idx, 7000, i), "store", NULL,
                             <<KArg(k.idx, i), k.GlobalMap[key]>>, <<>>)
                           EXCEPT !.md = {"TikSynthetic.Store"}]
                 IN SeedStores([coveredGlobals |-> acc.coveredGlobals \cup {k.GlobalMap[key]},
                                stores |-> Append(acc.stores, b)], k, i + 1)
            ELSE SeedStores(acc, k, i + 1)

RECURSIVE StoreAfter(_, _, _, _)
\* the second loop of UpdateMemory over the instructions of one block
StoreAfter(acc, k, done, insts) ==
    IF insts = <<>> \/ acc.thrown THEN [acc EXCEPT !.out = done \o insts]
    ELSE LET inst == Head(insts)
         IN IF inst.v \in DOMAIN k.GlobalMap /\ k.GlobalMap[inst.v] \notin acc.coveredGlobals
            THEN IF inst.op = "invoke"
                 THEN [acc EXCEPT !.thrown = TRUE, !.out = done \o insts]
                 ELSE LET n == ValueCode(inst.v)
                          a == I(Synth(k.idx, 7100, n), "gep", NULL,
                                 <<k.GlobalMap[inst.v], Const(0)>>, <<>>)
                          b == [I(Synth(k.idx, 7200, n), "store", NULL, <<inst.v, a.v>>, <<>>)
                                EXCEPT !.md = {"TikSynthetic.Store"}]
                      IN StoreAfter(acc, k, done \o <<inst, a, b>>, Tail(insts))
            ELSE StoreAfter(acc, k, done \o <<inst>>, Tail(insts))

RECURSIVE StoreAfterBlocks(_, _, _)
StoreAfterBlocks(acc, k, todo) ==
    IF todo = <<>> \/ acc.thrown THEN acc
    ELSE LET r == StoreAfter(acc, k, <<>>, acc.IR[Head(todo)].insts)
         IN StoreAfterBlocks([r EXCEPT !.IR = ReplaceInsts(acc.IR, Head(todo), r.out)],
                             k, Tail(todo))

UpdateMemory(k, ir, t, ord) ==
    LET s == SeedStores([coveredGlobals |-> {}, stores |-> <<>>], k, 1)
        ir1 == ReplaceInsts(ir, k.Init, ir[k.Init].insts \o s.stores)
        r == StoreAfterBlocks([IR |-> ir1, thrown |-> FALSE, out |-> <<>>,
                               coveredGlobals |-> s.coveredGlobals],
                              k, FunctionBlocks(ir1, k.KernelFunction, ord))
    IN [thrown |-> r.thrown, K |-> k, IR |-> r.IR, T |-> t]

DoUpdateMemory == Phase("UpdateMemory", UpdateMemory(K, IR, TikModule, order))

\* ---------------------------------------------------------------- Init and Exit

\* a BuildInit that numbers the cases of the switch from 1
BuildInitFromOne(k, ir, t, ord) ==
    LET ents == SetToSeq(k.Entrances, ord)
        initSwitch == I(Synth(k.idx, 8000, 0), "switch", NULL,
                        <<KArg(k.idx, 0)>> \o [i \in DOMAIN ents |-> Const(i)],
                        <<k.Exception>> \o [i \in DOMAIN ents |-> Lookup(k.VMap, ents[i], NULL)])
    IN Returned(k, ReplaceInsts(ir, k.Init, ir[k.Init].insts \o <<initSwitch>>), t)

\* the switch of Init: Exception by default, case i to the image of the i-th
\* entrance in the order of the set Entrances
BuildInit(k, ir, t, ord) ==
    LET ents == SetToSeq(k.Entrances, ord)
        initSwitch == I(Synth(k.idx, 8000, 0), "switch", NULL,
                        <<KArg(k.idx, 0)>> \o [i \in DOMAIN ents |-> Const(i - 1)],
                        <<k.Exception>> \o [i \in DOMAIN ents |-> Lookup(k.VMap, ents[i], NULL)])
    IN Returned(k, ReplaceInsts(ir, k.Init, ir[k.Init].insts \o <<initSwitch>>), t)

DoBuildInit == Phase("BuildInit", BuildInit(K, IR, TikModule, order))

\* the phi of Exit, one incoming pair per entry of ExitMap, and the return of
\* Exception; a key of ExitMap with no image in VMap gives a null incoming block
BuildExit(k, ir, t, ord) ==
    LET keys == SetToSeq(DOMAIN k.ExitMap, ord)
        V(b) == IF InTikModule(ir, t, b) THEN b ELSE Lookup(k.VMap, b, NULL)
        phi == I(Synth(k.idx, 8100, 0), "phi", NULL,
                 [i \in DOMAIN keys |-> Const(k.ExitMap[keys[i]])],
                 [i \in DOMAIN keys |-> V(keys[i])])
        ret == I(Synth(k.idx, 8200, 0), "ret", NULL, <<phi.v>>, <<>>)
        exc == I(Synth(k.idx, 8300, 0), "ret", NULL, <<Const(-2)>>, <<>>)
    IN Returned(k, ReplaceInsts(ReplaceInsts(ir, k.Exit, ir[k.Exit].insts \o <<phi, ret>>),
                                k.Exception, ir[k.Exception].insts \o <<exc>>), t)

DoBuildExit == Phase("BuildExit", BuildExit(K, IR, TikModule, order))

\* ---------------------------------------------------------------- nested calls

\* embeddedCallArgs for a call of the kernel subK: an argument of the called
\* function maps to the instruction of KernelFunction, or else to the argument
\* of KernelFunction (the last one), that its ArgumentMap entry equals
EmbeddedCallArgs(k, ir, subK) ==
    LET sargs == {KArg(subK.idx, j) : j \in 0..(Len(subK.FunctionType) - 1)}
        args == {KArg(k.idx, j) : j \in 0..(Len(k.FunctionType) - 1)}
        insts == {ir[b].insts[i].v :
                    <<b, i>> \in UNION {{b} \X DOMAIN ir[b].insts :
                                          b \in BlocksOf(ir, k.KernelFunction)}}
        ByArg(sarg) == {a \in args : Lookup(subK.ArgumentMap, sarg, NULL)
                                        = Lookup(k.ArgumentMap, a, NULL)}
        ByInst(sarg) == {v \in insts : Lookup(subK.ArgumentMap, sarg, NULL) = v}
    IN [sarg \in {x \in sargs : ByArg(x) # {} \/ ByInst(x) # {}} |->
          IF ByArg(sarg) # {}
          THEN CHOOSE a \in ByArg(sarg) : \A b \in ByArg(sarg) : b[4] <= a[4]
          ELSE CHOOSE v \in ByInst(sarg) : TRUE]

\* the operands of one call of an embedded kernel after the rewrite
RemapCall(inst, emb) ==
    [inst EXCEPT !.args = [j \in DOMAIN @ |->
                             IF IsArgument(@[j]) THEN Lookup(emb, @[j], NULL) ELSE @[j]]]

\* a call of a function of TikModule that KfMap knows as a kernel
IsEmbeddedCall(inst, k, kfmap) ==
    /\ inst.op = "call"
    /\ inst.callee \notin {k.MemoryRead, k.MemoryWrite}
    /\ inst.callee \in DOMAIN kfmap

RemapNestedKernels(k, ir, t, kfmap, ks) ==
    LET G(inst) == IF IsEmbeddedCall(inst, k, kfmap)
                   THEN RemapCall(inst, EmbeddedCallArgs(k, ir, ks[kfmap[inst.callee]]))
                   ELSE inst
        Bad(inst) == /\ IsEmbeddedCall(inst, k, kfmap)
                     /\ \E j \in DOMAIN inst.args :
                           ~IsArgument(inst.args[j]) /\ ~IsConstant(inst.args[j])
                           /\ ~IsGlobalVariable(inst.args[j]) /\ ~IsFunction(inst.args[j])
        thrown == \E b \in BlocksOf(ir, k.KernelFunction) :
                     \E i \in DOMAIN ir[b].insts : Bad(ir[b].insts[i])
    IN [thrown |-> thrown, K |-> k, IR |-> MapInsts(ir, k.KernelFunction, G), T |-> t]

DoRemapNestedKernels ==
    Phase("RemapNestedKernels", RemapNestedKernels(K, IR, TikModule, KfMap, kernels))

\* ---------------------------------------------------------------- metadata

TikMetadata == {"TikMetadata.Body", "TikMetadata.Terminus", "TikMetadata.Conditional"}

\* block->getFirstInsertionPt(): the index of the first instruction after the phis
FirstInsertionPt(insts) ==
    IF \E i \in DOMAIN insts : insts[i].op # "phi"
    THEN CHOOSE i \in DOMAIN insts : insts[i].op # "phi" /\ \A j \in 1..(i - 1) : insts[j].op = "phi"
    ELSE 0

\* setMetadata("TikMetadata", node) on the first insertion point of every block of bs
Annotate(ir, bs, node) ==
    [b \in DOMAIN ir |->
        IF b \in bs /\ FirstInsertionPt(ir[b].insts) # 0
        THEN [ir[b] EXCEPT !.insts[FirstInsertionPt(ir[b].insts)].md = (@ \ TikMetadata) \cup {node}]
        ELSE ir[b]]

\* ApplyMetadata: the KernelName node, built from the member Name, on the
\* functions and the globals of GlobalMap; then body, terminus and conditional
ApplyMetadata(k, ir, t) ==
    LET named == {k.KernelFunction, k.MemoryRead, k.MemoryWrite} \cup Range(k.GlobalMap)
        ir1 == Annotate(ir, k.Body, "TikMetadata.Body")
        ir2 == Annotate(ir1, k.Termination, "TikMetadata.Terminus")
        ir3 == Annotate(ir2, k.Conditional, "TikMetadata.Conditional")
    IN Returned([k EXCEPT !.KernelName = [e \in named |-> k.Name]], ir3, t)

DoApplyMetadata == Phase("ApplyMetadata", ApplyMetadata(K, IR, TikModule))

\* Valid = true, the last statement of the try block
SetValid == Phase("SetValid", Returned([K EXCEPT !.Valid = TRUE], IR, TikModule))

\* ---------------------------------------------------------------- failure

\* a Cleanup that detaches the KernelFunction and nothing else
CleanupFunctionOnly(k, t) ==
    [functions |-> t.functions \ {k.KernelFunction}, globals |-> t.globals]

\* Cleanup: removeFromParent of KernelFunction, MemoryRead, MemoryWrite and of
\* every global that is a value of GlobalMap
Cleanup(k, t) ==
    [functions |-> t.functions \ {k.KernelFunction, k.MemoryRead, k.MemoryWrite},
     globals |-> t.globals \ Range(k.GlobalMap)]

\* the catch block of the constructor
Catch ==
    /\ pc = "catch"
    /\ TikModule' = Cleanup(K, TikModule)
    /\ K' = [K EXCEPT !.CleanedUp = TRUE]
    /\ pc' = "done"
    /\ UNCHANGED <<IR, order, requests, reservedNames, KernelUID, KernelMap, KfMap, kernels,
                   log, tikBefore>>

\* ---------------------------------------------------------------- the run

\* the driver after a constructor returned: a valid kernel is entered into
\* KfMap under its KernelFunction and into KernelMap under its block ids
Register ==
    /\ pc = "done"
    /\ kernels' = Append(kernels, K)
    /\ IF K.Valid
       THEN /\ KfMap' = Put(KfMap, K.KernelFunction, K.idx)
            /\ KernelMap' = [id \in DOMAIN KernelMap \cup {IR[b].id : b \in K.blocks} |->
                               IF id \in {IR[b].id : b \in K.blocks} THEN K.idx
                               ELSE KernelMap[id]]
       ELSE UNCHANGED <<KfMap, KernelMap>>
    /\ pc' = "idle"
    /\ UNCHANGED <<IR, order, requests, reservedNames, KernelUID, TikModule, K, log, tikBefore>>

\* the driver after the TikException of the name check left the constructor:
\* no Kernel object exists, the run goes on with the next request
Skip ==
    /\ pc = "escaped"
    /\ kernels' = Append(kernels, K)
    /\ pc' = "idle"
    /\ UNCHANGED <<IR, order, requests, reservedNames, KernelUID, TikModule, KernelMap, KfMap,
                   K, log, tikBefore>>

\* sequences over S of length 1..n
SeqsUpTo(S, n) == UNION {[1..m -> S] : m \in 1..n}

\* control flow of main: block 1 enters at 2 or at 2 and 3, blocks 2 and 3 are
\* free, block 4 returns
ControlFlows ==
    {succ \in [MainBlocks -> SuccChoices] :
        /\ succ[1] \in {<<2>>, <<2, 3>>}
        /\ succ[NumBlocks] = <<>>}

\* control flow for the decorated modules: a chain or a loop over 2 and 3
DecoratedFlows ==
    {succ \in ControlFlows :
        /\ succ[1] = <<2>>
        /\ succ[2] \in {<<3>>, <<3, 4>>}
        /\ succ[3] \in {<<4>>, <<2, 4>>}}

\* control flow with a switch: as ControlFlows, and a block of main ends in a
\* switch over three blocks
SwitchFlows ==
    {succ \in [MainBlocks -> SuccChoices \cup SwitchChoices] :
        /\ succ[1] \in {<<2>>, <<2, 3>>}
        /\ succ[NumBlocks] = <<>>
        /\ \E b \in MainBlocks : Len(succ[b]) > 2}

\* control flow of a main with one more block: blocks 2 and 3 may leave to it,
\* it returns or goes on to the last block
WideFlows ==
    {succ \in [MainBlocks \cup {ExtraBlock} ->
                 SuccChoices \cup {<<ExtraBlock>>} \cup {<<x, ExtraBlock>> : x \in 2..NumBlocks}] :
        /\ succ[1] \in {<<2>>, <<2, 3>>}
        /\ succ[2] \in {<<3>>, <<3, ExtraBlock>>, <<NumBlocks, ExtraBlock>>, <<ExtraBlock>>}
        /\ succ[3] \in {<<NumBlocks>>, <<ExtraBlock>>, <<NumBlocks, ExtraBlock>>}
        /\ \A b \in 4..NumBlocks : succ[b] = <<>>
        /\ succ[ExtraBlock] \in {<<>>, <<NumBlocks>>}}

IdChoices == {{2}, {3}, {2, 3}, {2, 3, 4}}
DecoratedIdChoices == {{2}, {2, 3}, {2, HelperBlock}, {2, 3, HelperBlock}}
NameChoices == {<<>>, <<"0">>, <<"K", "0">>, KernelPrefix \o <<"0">>}
GeneratedNames == {<<>>, KernelPrefix \o <<"0">>}

InitRun(ir, reqs) ==
    /\ IR = ir
    /\ requests = reqs
    /\ reservedNames = {}
    /\ KernelUID = 0
    /\ TikModule = [functions |-> {}, globals |-> {}]
    /\ KernelMap = EmptyMap
    /\ KfMap = EmptyMap
    /\ kernels = <<>>
    /\ K = NewKernel(0)
    /\ pc = "idle"
    /\ log = <<>>
    /\ tikBefore = [functions |-> {}, globals |-> {}]

\* requests whose first kernel is unnamed; a later kernel is unnamed or has
\* the name that the first one gets
Requests(ids) ==
    {reqs \in SeqsUpTo(GeneratedNames \X ids, MaxKernels) : reqs[1][1] = <<>>}

\* plain modules over every control flow
Init ==
    /\ order \in Orders
    /\ \E succ \in ControlFlows : \E reqs \in Requests(IdChoices) :
          InitRun(Program(succ, "plain"), reqs)

\* decorated modules: calls, loads and stores, globals, invokes
InitDecorated ==
    /\ order \in Orders
    /\ \E succ \in DecoratedFlows : \E deco \in Decorations \ {"plain"} :
          \E reqs \in Requests(DecoratedIdChoices) :
             InitRun(Program(succ, deco), reqs)

\* named kernels over one block each
InitNamed ==
    /\ order \in Orders
    /\ \E succ \in DecoratedFlows : \E deco \in {"plain", "rec"} :
          \E reqs \in SeqsUpTo(NameChoices \X {{2}, {3}}, MaxKernels) :
             InitRun(Program(succ, deco), reqs)

\* plain modules in which a block ends in a switch
InitSwitch ==
    /\ order \in Orders
    /\ \E succ \in SwitchFlows : \E reqs \in Requests(IdChoices) :
          InitRun(Program(succ, "plain"), reqs)

\* modules whose main has one more block, plain or with values used across
\* blocks
InitWide ==
    /\ order \in Orders
    /\ \E succ \in WideFlows : \E deco \in {"plain", "uses"} :
          \E reqs \in Requests(IdChoices) :
             InitRun(Program(succ, deco), reqs)

Next ==
    \/ Begin
    \/ RecursionCheck
    \/ DoSplitBlocks
    \/ DoGetEntrances
    \/ DoGetExits
    \/ DoGetConditional
    \/ DoGetExternalValues
    \/ DoCreateFunction
    \/ DoBuildKernel
    \/ DoInlineFunctions
    \/ DoCopyGlobals
    \/ DoRemap
    \/ DoRepipe
    \/ DoExportFunctionSignatures
    \/ DoGetMemoryFunctions
    \/ DoUpdateMemory
    \/ DoBuildInit
    \/ DoBuildExit
    \/ DoRemapNestedKernels
    \/ DoApplyMetadata
    \/ SetValid
    \/ Catch
    \/ Register
    \/ Skip

Spec == Init /\ [][Next]_vars
SpecDecorated == InitDecorated /\ [][Next]_vars
SpecNamed == InitNamed /\ [][Next]_vars
SpecSwitch == InitSwitch /\ [][Next]_vars
SpecWide == InitWide /\ [][Next]_vars

\* ---------------------------------------------------------------- properties

\* the construction under way, or the last one, failed inside the try block
Failed == K.CleanedUp \/ pc = "catch"

\* C1: Valid is true exactly when every guarded phase, from the recursion check
\* to ApplyMetadata, returned; the phases run in the order of the code; once a
\* phase has thrown no other phase runs, Cleanup detaches KernelFunction,
\* MemoryRead, MemoryWrite and the globals of GlobalMap, and Valid stays false
C1_ValidIffEveryPhaseCompleted ==
    /\ log = SubSeq(Phases, 1, Len(log))
    /\ K.Valid <=> (log = Phases /\ ~Failed)
    /\ Failed => Len(log) < Len(Phases) /\ ~K.Valid
    /\ pc = "done" => (K.Valid \/ K.CleanedUp)
    /\ K.CleanedUp =>
          /\ pc \in {"done", "idle"}
          /\ TikModule.functions \cap {K.KernelFunction, K.MemoryRead, K.MemoryWrite} = {}
          /\ TikModule.globals \cap Range(K.GlobalMap) = {}

\* a construction that threw in UpdateMemory, after MemoryRead and the promoted
\* globals were created, and went through Cleanup
C1_Witness ==
    /\ pc = "done"
    /\ K.CleanedUp
    /\ log[Len(log)] = "UpdateMemory"
    /\ K.MemoryRead # NULL
    /\ Range(K.GlobalMap) # {}

\* C2: after a failed construction TikModule holds the entities it held when
\* the construction began
C2_FailedConstructionLeavesModule ==
    (pc = "done" /\ K.CleanedUp) => TikModule = tikBefore

\* C3: a construction whose resolved name is already reserved is caught inside
\* the constructor: no exception leaves it, Cleanup runs and the kernel ends
\* with Valid = false
C3_DuplicateNameIsCaught ==
    /\ pc # "escaped"
    /\ \A i \in DOMAIN kernels : kernels[i].Escaped => kernels[i].CleanedUp

\* the constructions that got past the name check, the one under way included
PastNameCheck ==
    {k \in Range(kernels) \cup {K} : k.idx > 0 /\ ~k.Escaped}

\* C4: no two constructions that got past the name check have the same
\* resolved name, whether their build succeeded or not; an empty name resolves
\* to Kernel_<counter>, a name that begins with a digit to K and the name, any
\* other name to itself
C4_ResolvedNamesUnique ==
    /\ \A a, b \in PastNameCheck : a.idx # b.idx => a.localName # b.localName
    /\ \A k \in PastNameCheck :
          /\ k.localName \in reservedNames
          /\ k.name = <<>> =>
                \E n \in 0..(k.idx - 1) : k.localName = KernelPrefix \o to_string(n)
          /\ (k.name # <<>> /\ k.name[1] \in Range(Digits)) => k.localName = <<"K">> \o k.name
          /\ (k.name # <<>> /\ k.name[1] \notin Range(Digits)) => k.localName = k.name

\* two constructions past the name check, the first with a generated name and
\* a failed build, the second with a name that begins with a digit
C4_Witness ==
    /\ Len(kernels) = 2
    /\ kernels[1].name = <<>> /\ ~kernels[1].Escaped /\ ~kernels[1].Valid
    /\ kernels[2].name = <<"0">> /\ ~kernels[2].Escaped

\* the constructor has just set Valid: the kernel is successful and complete
Successful == pc = "done" /\ K.Valid

\* the blocks of the KernelFunction of the kernel under construction
KernelBlocks == BlocksOf(IR, K.KernelFunction)

\* C5: the KernelFunction of a successful kernel takes 1 + |ExternalValues|
\* arguments, the first an i8, argument i + 1 of the type of ExternalValues[i]
\* and bound to it in VMap and in ArgumentMap; ExternalValues holds no value
\* twice; without external values there is exactly one argument
C5_ArgumentsBoundToExternalValues ==
    Successful =>
       LET ev == K.ExternalValues
       IN /\ Len(K.FunctionType) = 1 + Len(ev)
          /\ K.FunctionType[1] = "i8"
          /\ \A i \in DOMAIN ev :
                /\ K.FunctionType[i + 1] = TypeOf(ev[i])
                /\ Lookup(K.VMap, ev[i], NULL) = KArg(K.idx, i)
                /\ Lookup(K.ArgumentMap, KArg(K.idx, i), NULL) = ev[i]
          /\ \A i, j \in DOMAIN ev : i # j => ev[i] # ev[j]
          /\ ev = <<>> => Len(K.FunctionType) = 1

\* the blocks of S that were cloned, with their clones
Cloned == {b \in K.blocks : CloneOf(K.idx, b) \in DOMAIN IR}

\* the block of S ends, before its branch, in a call that the inliner
\* redirected to the entrance block e of the called function
InlinedCallSite(b, e) ==
    /\ Len(IR[b].insts) >= 2
    /\ \E f \in Range(K.InlinedFunctions) :
          /\ f.entranceBlock = e
          /\ IR[b].insts[Len(IR[b].insts) - 1].op = "call"
          /\ IR[b].insts[Len(IR[b].insts) - 1].callee = f.CalledFunction

\* the target, in KernelFunction, of the edge of S from b to s
ImageOfEdge(s) == IF s \in K.blocks THEN Lookup(K.VMap, s, NULL) ELSE K.Exit

\* C6 as stated: in a successful kernel every successor of every terminator of
\* KernelFunction is a block of KernelFunction; the clone of an edge that left
\* S points to Exit, the clone of an edge inside S to the image of its target
C6_EdgesStayInKernelFunction ==
    Successful =>
       /\ \A b \in KernelBlocks : Successors(IR, b) \subseteq KernelBlocks
       /\ \A b \in Cloned : \A j \in DOMAIN SuccSeq(IR, b) :
             SuccSeq(IR, CloneOf(K.idx, b))[j] = ImageOfEdge(SuccSeq(IR, b)[j])

\* C6, amended: as stated, except that the clone of a block that ends in an
\* inlined call branches to the entrance block of the inlined function
C6_EdgesStayInKernelFunctionOrInlined ==
    Successful =>
       /\ \A b \in KernelBlocks : Successors(IR, b) \subseteq KernelBlocks
       /\ \A b \in Cloned : \A j \in DOMAIN SuccSeq(IR, b) :
             LET c == SuccSeq(IR, CloneOf(K.idx, b))[j]
             IN IF \E e \in KernelBlocks : InlinedCallSite(b, e)
                THEN InlinedCallSite(b, c)
                ELSE c = ImageOfEdge(SuccSeq(IR, b)[j])

\* a successful kernel with an edge that left S, an edge inside S and an
\* inlined call
C6_Witness ==
    /\ Successful
    /\ \E b \in Cloned : \E s \in Successors(IR, b) : s \notin K.blocks
    /\ \E b \in Cloned : \E s \in Successors(IR, b) : s \in K.blocks /\ ~InlinedCallSite(b, s)
    /\ \E b \in Cloned : \E e \in KernelBlocks : InlinedCallSite(b, e)

\* the intermediate call blocks of the kernel under construction
IntermediateBlocks == {b \in KernelBlocks : Kind(b) = "inter"}

\* C7: in a successful kernel Body and Termination are disjoint, every clone
\* and every intermediate call block is in one of them, and neither holds a
\* block that is not in KernelFunction
C7_BodyTerminationPartition ==
    Successful =>
       /\ K.Body \cap K.Termination = {}
       /\ \A b \in Cloned : CloneOf(K.idx, b) \in K.Body \cup K.Termination
       /\ IntermediateBlocks \subseteq K.Body \cup K.Termination
       /\ K.Body \cup K.Termination \subseteq KernelBlocks

\* C8: in a successful kernel every block of Conditional is in Body, as the
\* Region Analyzer computes the two sets over S and as they are after cloning
C8_ConditionalInBody ==
    Successful =>
       /\ K.Conditional \subseteq K.Body
       /\ GetConditional(IR, K.blocks).Conditional \subseteq GetConditional(IR, K.blocks).Body

\* the blocks of S that leave the region: a successor outside S, or a return
\* of a function that has a user outside S
LeavesRegion(b) ==
    \/ \E s \in Successors(IR, b) : s \notin K.blocks
    \/ /\ HasTerminator(IR, b) /\ Terminator(IR, b).op = "ret"
       /\ \E u \in Users(IR, IR[b].parent) : u[1] \notin K.blocks

\* C9: when GetExits has returned, every block of S that leaves the region has
\* an entry in ExitMap
C9_ExitMapTotal ==
    (pc = After("GetExits") /\ log # <<>> /\ log[Len(log)] = "GetExits") =>
       \A b \in K.blocks : LeavesRegion(b) => b \in DOMAIN K.ExitMap

\* the phis of a block
PhisOf(b) == {i \in DOMAIN IR[b].insts : IR[b].insts[i].op = "phi"}

\* C10: in a successful kernel every phi of KernelFunction, the phi of Exit
\* included, has one incoming entry for each predecessor of its block and no
\* other, and every incoming block is a block of KernelFunction
C10_PhiIncomingPerPredecessor ==
    Successful =>
       \A b \in KernelBlocks : \A i \in PhisOf(b) :
          LET blks == IR[b].insts[i].blks
          IN /\ Range(blks) = Predecessors(IR, b)
             /\ \A x, y \in DOMAIN blks : x # y => blks[x] # blks[y]
             /\ Range(blks) \subseteq KernelBlocks

\* the seeding stores of Init: a store of an argument of KernelFunction into a
\* global of GlobalMap, marked TikSynthetic
IsSeedingStore(inst) ==
    /\ inst.op = "store"
    /\ "TikSynthetic.Store" \in inst.md
    /\ \E i \in DOMAIN K.ExternalValues : inst.args[1] = KArg(K.idx, i)
    /\ inst.args[2] \in Range(K.GlobalMap)

\* C11: in a successful kernel Init consists of the seeding stores followed by
\* a switch on argument 0 with one case per entrance, numbered from 0 in the
\* order of Entrances, case i leading to the image of the i-th entrance, a block
\* of KernelFunction; the default leads to Exception, which returns -2
C11_InitSwitch ==
    Successful =>
       LET insts == IR[K.Init].insts
           sw == insts[Len(insts)]
           ents == SetToSeq(K.Entrances, order)
       IN /\ insts # <<>>
          /\ sw.op = "switch"
          /\ \A j \in 1..(Len(insts) - 1) : IsSeedingStore(insts[j])
          /\ sw.args = <<KArg(K.idx, 0)>> \o [i \in 1..Cardinality(K.Entrances) |-> Const(i - 1)]
          /\ Len(sw.blks) = 1 + Cardinality(K.Entrances)
          /\ sw.blks[1] = K.Exception
          /\ \A i \in DOMAIN ents :
                /\ ents[i] \in DOMAIN K.VMap
                /\ sw.blks[i + 1] = K.VMap[ents[i]]
                /\ sw.blks[i + 1] \in KernelBlocks \ {K.Init, K.Exit, K.Exception}
          /\ Len(IR[K.Exception].insts) = 1
          /\ IR[K.Exception].insts[1].op = "ret"
          /\ IR[K.Exception].insts[1].args = <<Const(-2)>>

\* a successful kernel with a seeding store in Init before the switch
C11_Witness ==
    /\ Successful
    /\ Len(IR[K.Init].insts) >= 2
    /\ IsSeedingStore(IR[K.Init].insts[1])
    /\ K.Entrances # {}

\* the loads and stores of KernelFunction, block by block
LoadsAndStores(ir) ==
    [b \in KernelBlocks |->
        SelectSeq(ir[b].insts, LAMBDA inst : inst.op \in {"load", "store"})]

\* the Memory Rewriter has just returned
MemoryRewritten ==
    pc = After("GetMemoryFunctions") /\ log # <<>> /\ log[Len(log)] = "GetMemoryFunctions"

\* the result r of one more run of the Memory Rewriter changes nothing
RerunIsNoOp(r) ==
    /\ ~r.thrown
    /\ r.T.globals = TikModule.globals
    /\ r.K.GlobalMap = K.GlobalMap
    /\ r.K.LoadMap = K.LoadMap
    /\ r.K.StoreMap = K.StoreMap
    /\ LoadsAndStores(r.IR) = LoadsAndStores(IR)

\* C12: when the Memory Rewriter has returned, one more run of it on the same
\* KernelFunction promotes no global, leaves the index tables LoadMap and
\* StoreMap as they are and changes no load and no store
C12_MemoryRewriterIdempotent ==
    MemoryRewritten => RerunIsNoOp(GetMemoryFunctions(K, IR, TikModule, order))

\* the clones, in KernelFunction, of the blocks of S
Clones == {CloneOf(K.idx, b) : b \in Cloned}

\* the partition r of the block set S2 is the one the kernel records for it
SamePartition(r, S2) ==
    /\ r.Conditional = K.Conditional \cap S2
    /\ r.Body = K.Body \cap S2
    /\ r.Termination = K.Termination \cap S2

\* C13: in a successful kernel the Region Analyzer, run on the clones of the
\* blocks of S as they are in KernelFunction, gives every clone the class the
\* kernel records for it: the same Conditional, Body and Termination
C13_RegionAnalyzerReproduces ==
    Successful => SamePartition(GetConditional(IR, Clones), Clones)

\* the region of the construction under way holds an invoke instruction
RegionHasInvoke ==
    \E b \in K.blocks : \E i \in DOMAIN IR[b].insts : IR[b].insts[i].op = "invoke"

\* C14: a construction over a region that holds an invoke instruction fails:
\* UpdateMemory throws, Cleanup runs and the kernel ends with Valid = false,
\* whatever the result of the invoke is used for
C14_InvokeFailsConstruction ==
    (pc = "done" /\ RegionHasInvoke) =>
       /\ ~K.Valid
       /\ K.CleanedUp
       /\ log[Len(log)] = "UpdateMemory"

\* the Region Analyzer has just classified the blocks of S
RegionAnalyzed ==
    pc = After("GetConditional") /\ log # <<>> /\ log[Len(log)] = "GetConditional"

\* the blocks of S with two successors, the block itself and a block outside S
SelfLoops ==
    {b \in K.blocks : /\ Len(SuccSeq(IR, b)) = 2
                      /\ b \in Successors(IR, b)
                      /\ \E s \in Successors(IR, b) : s \notin K.blocks}

\* the blocks that control flow reaches from b
ReachableFrom(b) == Closure(IR, {}, Successors(IR, b), DOMAIN IR)

\* C15: the Region Analyzer puts a block of S whose two successors are itself
\* and a block outside S into Conditional and into Body, and the blocks of S
\* that are not on its loop, which control flow does not reach from it, into
\* Termination
C15_SelfLoopIsConditional ==
    RegionAnalyzed =>
       \A b \in SelfLoops :
          /\ b \in K.Conditional
          /\ b \in K.Body
          /\ K.blocks \ ReachableFrom(b) \subseteq K.Termination

\* GetEntrances was the last phase to run: it has just returned or thrown
EntrancesComputed == log # <<>> /\ log[Len(log)] = "GetEntrances"

\* B has a predecessor outside S, or is the entry block of a function with a
\* user outside S
EntersRegion(B) ==
    \/ \E pred \in Predecessors(IR, B) : pred \notin K.blocks
    \/ /\ B = EntryBlock(IR[B].parent)
       /\ \E u \in Users(IR, IR[B].parent) : u[1] \notin K.blocks

\* C16: when GetEntrances has run, a block of S is in Entrances exactly when
\* it has a predecessor outside S or is the entry block of a function with a
\* user outside S, whether or not it belongs to a kernel built before; and
\* GetEntrances throws exactly when Entrances is empty
C16_EntrancesExact ==
    EntrancesComputed =>
       /\ K.Entrances \subseteq K.blocks
       /\ \A B \in K.blocks : B \in K.Entrances <=> EntersRegion(B)
       /\ K.Entrances = {} <=> Failed

\* GetExits was the last phase to run: it has just returned or thrown
ExitsComputed == log # <<>> /\ log[Len(log)] = "GetExits"

\* the blocks outside S that a block of S leads to: a successor, or the block
\* of a user of the function a returning block of S is in
OutsideTargets ==
    {s \in UNION {Successors(IR, b) : b \in K.blocks} : s \notin K.blocks}
    \cup {u[1] : u \in {x \in UNION {Users(IR, IR[b].parent) :
                                       b \in {c \in K.blocks :
                                                 /\ HasTerminator(IR, c)
                                                 /\ Terminator(IR, c).op = "ret"}} :
                          x[1] \notin K.blocks}}

\* C17: when GetExits has run, ExitTarget maps the ids 0 .. n - 1 one to one
\* onto the n distinct outside targets, every id is the value of ExitMap for
\* some block of S, and GetExits throws exactly when n = 0
C17_ExitIdsDense ==
    ExitsComputed =>
       /\ DOMAIN K.ExitTarget = 0..(Cardinality(OutsideTargets) - 1)
       /\ Range(K.ExitTarget) = OutsideTargets
       /\ \A i, j \in DOMAIN K.ExitTarget : i # j => K.ExitTarget[i] # K.ExitTarget[j]
       /\ DOMAIN K.ExitMap \subseteq K.blocks
       /\ Range(K.ExitMap) = DOMAIN K.ExitTarget
       /\ OutsideTargets = {} <=> Failed

\* the component each phase of the constructor belongs to
BlockSplitterSteps == {"SplitBlocks"}
RegionAnalyzerSteps == {"GetEntrances", "GetExits", "GetConditional"}
ValueClassifierSteps == {"GetExternalValues"}
KernelBuilderSteps == {"CreateFunction", "BuildKernel"}
MemoryRewriterSteps == {"GetMemoryFunctions", "UpdateMemory"}
InlinerSteps == {"InlineFunctions"}
FinalizerSteps ==
    {"CopyGlobals", "Remap", "Repipe", "ExportFunctionSignatures", "BuildInit",
     "BuildExit", "RemapNestedKernels", "ApplyMetadata"}

\* every step of the component P in the log comes before every step of Q in it
StepsBefore(P, Q) ==
    \A i, j \in DOMAIN log : (log[i] \in Q /\ log[j] \in P) => j < i

\* no step of Q has started unless every step of P has run
CompletedBefore(P, Q) ==
    (\E i \in DOMAIN log : log[i] \in Q) => P \subseteq Range(log)

ComponentOrder ==
    <<BlockSplitterSteps, RegionAnalyzerSteps, ValueClassifierSteps, KernelBuilderSteps,
      MemoryRewriterSteps, InlinerSteps, FinalizerSteps>>

\* C18: in every construction the components run in the order Block Splitter,
\* Region Analyzer, Value Classifier, Kernel Builder, Memory Rewriter, Inliner,
\* Finalizer: each has completed before the next one starts, so the Memory
\* Rewriter completes before the Inliner starts and no Finalizer step runs
\* before both have completed
C18_ComponentOrder ==
    \A p, q \in DOMAIN ComponentOrder :
       p < q => /\ StepsBefore(ComponentOrder[p], ComponentOrder[q])
                /\ CompletedBefore(ComponentOrder[p], ComponentOrder[q])

\* the entities ApplyMetadata annotates with the KernelName node
NamedEntities == {K.KernelFunction, K.MemoryRead, K.MemoryWrite} \cup Range(K.GlobalMap)

\* C19: for a successful kernel the KernelName metadata on KernelFunction,
\* MemoryRead, MemoryWrite and every promoted global is the resolved name, the
\* one that was reserved and that KernelFunction was created with
C19_KernelNameIsResolvedName ==
    Successful =>
       /\ NamedEntities \subseteq DOMAIN K.KernelName
       /\ \A e \in NamedEntities : K.KernelName[e] = K.localName

\* a successor of C from which the walk both reaches C again and leaves S or
\* hits a block without successors
Ambiguous(C, suc) == Recurses(IR, K.blocks, C, suc) /\ Exits(IR, K.blocks, C, suc)
PureRecursing(C, suc) == Recurses(IR, K.blocks, C, suc) /\ ~Exits(IR, K.blocks, C, suc)
PureExiting(C, suc) == Exits(IR, K.blocks, C, suc) /\ ~Recurses(IR, K.blocks, C, suc)

\* C20: after GetConditional a block C of S with more than one successor is in
\* Conditional exactly when no successor of C is ambiguous, one is
\* pure-recursing and one is pure-exiting: one ambiguous successor keeps C out
\* of Conditional whatever the other successors are
C20_AmbiguousDisqualifies ==
    RegionAnalyzed =>
       \A C \in K.blocks :
          Len(SuccSeq(IR, C)) > 1 =>
             (C \in K.Conditional <=>
                 /\ \A suc \in Successors(IR, C) : ~Ambiguous(C, suc)
                 /\ \E suc \in Successors(IR, C) : PureRecursing(C, suc)
                 /\ \E suc \in Successors(IR, C) : PureExiting(C, suc))

\* the blocks reachable from the pure-recursing successors of the valid
\* condition C along edges whose destination is in S and is no other valid
\* condition
ReachableInRegion(C) ==
    Closure(IR, {}, RecursePaths(IR, K.blocks, C), K.blocks \ (K.Conditional \ {C}))

\* the blocks the body walks of the valid conditions pop
BodyWalkVisited == UNION {BodyWalk(IR, K.blocks, C) : C \in K.Conditional}

\* C21: after GetConditional the body walk has visited no block outside S, and
\* Body is the set of blocks reachable from the pure-recursing successors of
\* some valid condition along edges whose destination lies in S and is not a
\* different valid condition
C21_BodyWalkStaysInRegion ==
    RegionAnalyzed =>
       /\ BodyWalkVisited \subseteq K.blocks
       /\ K.Body = UNION {ReachableInRegion(C) : C \in K.Conditional}

\* SplitBlocks was the last phase to run
SplitDone == log # <<>> /\ log[Len(log)] = "SplitBlocks"

\* the block the latest split after the instruction inst created
LatestSplitOf(inst) ==
    CHOOSE h \in SplitsOf(IR, inst) : \A g \in SplitsOf(IR, inst) : g[3] <= h[3]

\* C22: when SplitBlocks is done, every call of a block of S that is not a
\* terminator and calls a function with a body is followed at once by the
\* terminator of its block, and the block its split created is in S and has
\* the BlockID of the block it was split from
C22_CallsEndTheirBlocks ==
    SplitDone =>
       \A b \in K.blocks : \A i \in SplitPoints(IR, b) :
          /\ HasTerminator(IR, b)
          /\ i + 1 = Len(IR[b].insts)
          /\ SplitsOf(IR, IR[b].insts[i]) # {}
          /\ SuccSeq(IR, b) = <<LatestSplitOf(IR[b].insts[i])>>
          /\ LatestSplitOf(IR[b].insts[i]) \in K.blocks
          /\ IR[LatestSplitOf(IR[b].insts[i])].id = IR[b].id
          /\ IR[b].id \in 1..HelperBlock

\* SplitBlocks has split a block of S after a call
C22_Witness ==
    SplitDone /\ \E b \in K.blocks : SplitPoints(IR, b) # {}

\* InlineFunctions was the last phase to run, and it returned
Inlined == pc = After("InlineFunctions") /\ log # <<>> /\ log[Len(log)] = "InlineFunctions"

\* the instruction with the handle v in the block b
InstAt(b, v) == IR[b].insts[CHOOSE i \in DOMAIN IR[b].insts : IR[b].insts[i].v = v]

\* the calls to the function f in the blocks of the input module whose clone
\* is the block pre of KernelFunction
CallsCloned(f, pre) ==
    {inst \in UNION {Range(IR[P].insts) : P \in {Q \in DOMAIN K.VMap :
                                                   IsBlock(Q) /\ K.VMap[Q] = pre}} :
        inst.op = "call" /\ inst.callee = f}

\* the phi of argument a of the inlined function cs has, for each call-site
\* block, the operand a of the call in that block
ArgPhiFollowsCallSites(cs, a) ==
    \A i \in DOMAIN InstAt(cs.entranceBlock, cs.ArgNodes[a]).blks :
       \A call \in CallsCloned(cs.CalledFunction,
                               InstAt(cs.entranceBlock, cs.ArgNodes[a]).blks[i]) :
          InstAt(cs.entranceBlock, cs.ArgNodes[a]).args[i] = call.args[a]

\* C23: after InlineFunctions the phi of each formal argument of an inlined
\* function receives, from each call-site block, the actual argument that the
\* call of that block passes
C23_ArgPhiPerCallSite ==
    Inlined =>
       \A n \in DOMAIN K.InlinedFunctions : \A a \in DOMAIN K.InlinedFunctions[n].ArgNodes :
          ArgPhiFollowsCallSites(K.InlinedFunctions[n], a)

\* the blocks of the input module whose clone is the block pre of KernelFunction
OriginalsOf(pre) == {Q \in DOMAIN K.VMap : IsBlock(Q) /\ K.VMap[Q] = pre}

\* the switch of the return block of the inlined function cs sends the
\* branchPhi value of the call-site block pre to the image of the block that
\* followed the call of pre
ReturnsToCallSite(cs, pre, value) ==
    \A P \in OriginalsOf(pre) :
       \E c \in 2..Len(InstAt(cs.returnBlock, cs.SwitchInstruction).args) :
          /\ InstAt(cs.returnBlock, cs.SwitchInstruction).args[c] = value
          /\ InstAt(cs.returnBlock, cs.SwitchInstruction).blks[c]
                = ImageOfEdge(SuccSeq(IR, P)[1])

\* the call-site block pre ends in a branch to the entrance block of cs and
\* holds no call to the inlined function
CallSiteRedirected(cs, pre) ==
    /\ SuccSeq(IR, pre) = <<cs.entranceBlock>>
    /\ \A i \in DOMAIN IR[pre].insts :
          ~(IR[pre].insts[i].op = "call" /\ IR[pre].insts[i].callee = cs.CalledFunction)

\* the blocks control passes from the entrance block of cs before it reaches
\* the return block of cs
InlinedCopy(cs) == Closure(IR, {}, {cs.entranceBlock}, DOMAIN IR \ {cs.returnBlock})

\* control that entered the copy leaves it through the return block of cs only
LeavesThroughReturnBlock(cs) ==
    \A b \in InlinedCopy(cs) : SuccSeq(IR, b) # <<>>

SharedCopy(cs) ==
    /\ \A i \in DOMAIN InstAt(cs.entranceBlock, cs.branchPhi).blks :
          /\ ReturnsToCallSite(cs, InstAt(cs.entranceBlock, cs.branchPhi).blks[i],
                               InstAt(cs.entranceBlock, cs.branchPhi).args[i])
          /\ CallSiteRedirected(cs, InstAt(cs.entranceBlock, cs.branchPhi).blks[i])
    /\ LeavesThroughReturnBlock(cs)

\* C24: in a successful kernel the call sites of an inlined function share one
\* copy: for each call-site block the switch of the return block has the case
\* of its branchPhi value on the image of the block that followed its call, its
\* terminator branches to the entrance block, its call is erased, and control
\* that entered the copy leaves it through the return block
C24_CallSitesShareOneCopy ==
    Successful =>
       /\ \A n, m \in DOMAIN K.InlinedFunctions :
             K.InlinedFunctions[n].CalledFunction = K.InlinedFunctions[m].CalledFunction
                => n = m
       /\ \A n \in DOMAIN K.InlinedFunctions :
             K.InlinedFunctions[n].phiIndex > 1 => SharedCopy(K.InlinedFunctions[n])

\* the step in which GetMemoryFunctions returns
MemoryRewriteStep == pc = "GetMemoryFunctions" /\ pc' = After("GetMemoryFunctions")

\* the helper over the index table map returns, for every index, the pointer
\* of the global the table has at that index; the indices are 0 .. n - 1 for
\* the n pointers and no two of them share a global
HelperSelects(map, n) ==
    /\ DOMAIN map = 0..(n - 1)
    /\ \A i, j \in DOMAIN map : i # j => map[i] # map[j]
    /\ \A i \in DOMAIN map : HelperReturns(MemoryHelperBody(map), i) = map[i]

\* the instructions insts hold, for the load or store inst with the pointer
\* operand ptr, a call of helper with an index whose global is the one promoted
\* for ptr, the cast of the result, and the access through the cast
CallsOwnIndex(insts, inst, helper, map, gmap) ==
    \E j \in DOMAIN insts :
       /\ j + 2 <= Len(insts)
       /\ insts[j].op = "call" /\ insts[j].callee = helper
       /\ insts[j].v[4] = ValueCode(inst.v)
       /\ \E i \in DOMAIN map : insts[j].args = <<Const(i)>> /\ map[i] = gmap[PointerOperand(inst)]
       /\ insts[j + 1].op = "inttoptr" /\ insts[j + 1].args = <<insts[j].v>>
       /\ insts[j + 2].op = inst.op /\ PointerOperand(insts[j + 2]) = insts[j + 1].v

KernelValues == UNION {{IR[b].insts[i].v : i \in DOMAIN IR[b].insts} : b \in KernelBlocks}

\* the instruction of KernelFunction that produces the pointer the key p of
\* GlobalMap stands for: p itself, or the load that replaced the load p
ProducerOf(p) == IF p \in KernelValues THEN p ELSE Synth(K.idx, 6200, ValueCode(p))

\* Init stores a kernel argument into the global G
SeededInInit(G) ==
    \E i \in DOMAIN IR[K.Init].insts :
       /\ IR[K.Init].insts[i].op = "store"
       /\ IsArgument(IR[K.Init].insts[i].args[1])
       /\ IR[K.Init].insts[i].args[2] = G

\* the instruction v of KernelFunction is followed at once by a store of v
\* into the global G
StoredAfter(v, G) ==
    \E b \in KernelBlocks : \E i \in DOMAIN IR[b].insts :
       /\ IR[b].insts[i].v = v
       /\ i + 2 <= Len(IR[b].insts)
       /\ IR[b].insts[i + 1].op = "gep" /\ IR[b].insts[i + 1].args[1] = G
       /\ IR[b].insts[i + 2].op = "store"
       /\ IR[b].insts[i + 2].args = <<v, IR[b].insts[i + 1].v>>

\* C26: in a successful kernel every promoted global receives the pointer it
\* stands for: Init stores a kernel argument into it, or a store into it
\* follows the instruction of KernelFunction that produces the pointer, also
\* when that instruction is a load that the memory rewrite put in place
C26_PromotedGlobalsReceivePointer ==
    Successful =>
       \A p \in DOMAIN K.GlobalMap :
          SeededInInit(K.GlobalMap[p]) \/ StoredAfter(ProducerOf(p), K.GlobalMap[p])

\* ---------------------------------------------------------------- C27

\* BuildKernel has returned and nothing ran since
KernelBuilt == pc = After("BuildKernel") /\ log # <<>> /\ log[Len(log)] = "BuildKernel"

\* the already-built kernel a block of S belongs to
NestedKernelOf(b) == kernels[KernelMap[IR[b].id]]

\* the blocks of S that belong to a nested kernel: an already-built kernel
\* whose blocks are a strict subset of S
NestedBlocks ==
    {b \in K.blocks : /\ IR[b].id \in DOMAIN KernelMap
                      /\ NestedKernelOf(b).blocks \subseteq K.blocks
                      /\ NestedKernelOf(b).blocks # K.blocks}

\* the position of an entrance block among the entrances of its kernel
EntranceIdOf(nested, b) ==
    LET ents == SetToSeq(nested.Entrances, order)
    IN (CHOOSE i \in DOMAIN ents : ents[i] = b) - 1

\* the intermediate blocks of the KernelFunction that call the function f
IntermediateCalling(f) ==
    {h \in IntermediateBlocks : IR[h].insts # <<>> /\ IR[h].insts[1].op = "call"
                                /\ IR[h].insts[1].callee = f}

\* the intermediate block h stands for the entrance block b of nested: it calls
\* the nested KernelFunction with the entrance id, it is the VMap image of b
\* and it has the class of b
StandsForEntrance(nested, b) ==
    /\ b \in DOMAIN K.VMap
    /\ K.VMap[b] \in IntermediateCalling(nested.KernelFunction)
    /\ IR[K.VMap[b]].insts[1].args[1] = Const(EntranceIdOf(nested, b))
    /\ b \in K.Body => K.VMap[b] \in K.Body
    /\ b \in K.Termination => K.VMap[b] \in K.Termination
    /\ K.VMap[b] \in K.Body \cup K.Termination

\* a block of a nested kernel that is not one of its entrances has no image
NotCloned(b) == b \notin DOMAIN K.VMap /\ CloneOf(K.idx, b) \notin DOMAIN IR

\* C27: once BuildKernel returned, for every block of S that belongs to an
\* already-built kernel: when it is an entrance of that kernel, the
\* KernelFunction holds exactly one intermediate call block per entrance of
\* that kernel, and the one for this entrance calls the nested KernelFunction
\* with the entrance id, is the VMap image of the entrance block and is in Body
\* or Termination as the entrance block is; when it is not an entrance it is
\* not cloned
C27_IntermediateBlockPerEntrance ==
    KernelBuilt =>
        \A b \in NestedBlocks :
            IF b \in NestedKernelOf(b).Entrances
            THEN /\ Cardinality(IntermediateCalling(NestedKernelOf(b).KernelFunction))
                      = Cardinality(NestedKernelOf(b).Entrances)
                 /\ StandsForEntrance(NestedKernelOf(b), b)
            ELSE NotCloned(b)

\* ---------------------------------------------------------------- C28

\* the already-built kernels that have an entrance among the blocks of S
NestedKernels == {NestedKernelOf(b) : b \in {x \in NestedBlocks : x \in NestedKernelOf(x).Entrances}}

\* the exit ids of a nested kernel whose target is outside S
OutsideExits(nested) == {e \in DOMAIN nested.ExitTarget : nested.ExitTarget[e] \notin K.blocks}

\* the block h is a bridge: it holds one branch, to the Exit of the parent
IsBridge(h) ==
    /\ h \in KernelBlocks
    /\ Len(IR[h].insts) = 1
    /\ IR[h].insts[1].op = "br"
    /\ IR[h].insts[1].blks = <<K.Exit>>

\* the parent's ExitMap maps the block h to the parent's exit id of target
MapsToExitOf(h, target) ==
    /\ h \in DOMAIN K.ExitMap
    /\ K.ExitMap[h] \in DOMAIN K.ExitTarget
    /\ K.ExitTarget[K.ExitMap[h]] = target

\* the switch sw has a case for the exit id e that leads to a bridge block
\* mapped to the parent's exit for target
HasBridgeCase(sw, e, target) ==
    \E j \in 2..Len(sw.args) :
        /\ sw.args[j] = Const(e)
        /\ IsBridge(sw.blks[j])
        /\ MapsToExitOf(sw.blks[j], target)

\* the blocks of a kernel that branch to target
ProducersOf(nested, target) == {b \in nested.blocks : target \in Successors(IR, b)}

\* C28: once BuildKernel returned, for every exit of a nested kernel whose
\* target is outside S, the switch of every intermediate block that calls the
\* nested kernel has a case for the exit that leads to a bridge block, the
\* bridge branches to the parent's Exit, and the parent's ExitMap maps the
\* bridge to the parent's exit id whose ExitTarget is that target; BuildKernel
\* does not return when several blocks of the nested kernel produce the exit
C28_BridgePerSharedExit ==
    KernelBuilt =>
        \A nested \in NestedKernels : \A e \in OutsideExits(nested) :
            /\ \A h \in IntermediateCalling(nested.KernelFunction) :
                   HasBridgeCase(IR[h].insts[2], e, nested.ExitTarget[e])
            /\ Cardinality(ProducersOf(nested, nested.ExitTarget[e])) = 1

\* ---------------------------------------------------------------- C29

\* RemapNestedKernels has returned and nothing ran since
NestedRemapped ==
    pc = After("RemapNestedKernels") /\ log # <<>> /\ log[Len(log)] = "RemapNestedKernels"

\* the calls of kernels in the KernelFunction, as <<block, index>>
EmbeddedCalls ==
    {u \in UNION {{b} \X DOMAIN IR[b].insts : b \in KernelBlocks} :
        IsEmbeddedCall(IR[u[1]].insts[u[2]], K, KfMap)}

\* the instructions of the KernelFunction
KernelInstructions == {IR[b].insts[i].v : <<b, i>> \in UNION {{b} \X DOMAIN IR[b].insts : b \in KernelBlocks}}

\* v is the parent's value that stands for the external value ext of a child:
\* the parent's argument for ext, or the parent's copy of ext
StandsFor(v, ext) ==
    \/ v \in DOMAIN K.ArgumentMap /\ K.ArgumentMap[v] = ext
    \/ v \in KernelInstructions /\ ext \in DOMAIN K.VMap /\ K.VMap[ext] = v

\* operand j of a call of the kernel subK after the rewrite: the entrance id
\* is a constant, operand j stands for the external value of argument j - 1
OperandRemapped(inst, subK, j) ==
    IF j = 1 THEN IsConstant(inst.args[j])
    ELSE StandsFor(inst.args[j], Lookup(subK.ArgumentMap, KArg(subK.idx, j - 1), NULL))

\* C29: once RemapNestedKernels returned, every operand of every call of a
\* child kernel that was an argument of the child is a value of the parent, an
\* instruction of its KernelFunction or one of its arguments, that stands for
\* the child's external value, never null and never a value of the child; the
\* constant operand is left as it was
C29_NestedCallOperandsRemapped ==
    NestedRemapped =>
        \A u \in EmbeddedCalls :
            \A j \in DOMAIN IR[u[1]].insts[u[2]].args :
                OperandRemapped(IR[u[1]].insts[u[2]], kernels[KfMap[IR[u[1]].insts[u[2]].callee]], j)

\* ---------------------------------------------------------------- C30

\* the blocks of the function f that belong to the input module
InputBlocksOf(f) == {b \in BlocksOf(IR, f) : Owner(b) = 0}

\* the block b ends in a return and no successor of it is a block of a
\* function of TikModule
EndsInOwnReturn(b) ==
    /\ HasTerminator(IR, b)
    /\ Terminator(IR, b).op = "ret"
    /\ \A s \in Successors(IR, b) : ~InTikModule(IR, TikModule, s)

\* C30: once InlineFunctions returned, every block of an inlined callee in the
\* input module still ends in its return and has no successor in the output
\* module, whether or not the callee's blocks belong to S
C30_CalleeLeftIntact ==
    Inlined => \A n \in DOMAIN K.InlinedFunctions :
        \A b \in InputBlocksOf(K.InlinedFunctions[n].CalledFunction) : EndsInOwnReturn(b)

====
